---- MODULE Spec2Model ----
(***************************************************************************)
(* Finzo recommendation core: calculate_investment_capacity,               *)
(* determine_asset_allocation and the four recommend_* scorers of          *)
(* app/recommendation_engine.py, with the profile normalisation of the     *)
(* API entry points of app/recommendation_system.py.                       *)
(*                                                                         *)
(* Numbers.  Python floats are modelled as exact fixed-point integers:     *)
(*   - market-data fields and percentages are in hundredths (x100);        *)
(*   - scores are in hundredths of a point (x100);                         *)
(*   - rupee amounts are whole rupees, capacity results in tenths (x10).   *)
(* Python dicts keep insertion order, so a map is a sequence of            *)
(* [key, rec] pairs with distinct keys.  Strings that the code searches    *)
(* or lower-cases are sequences of one-character strings.                  *)
(***************************************************************************)
EXTENDS Integers, Sequences, FiniteSets, TLC

VARIABLES
    profile_dict,      \* raw profile handed to an API entry point
    profile,           \* canonical profile handed to the engine
    stock_data,        \* [technical, fundamental]: ordered maps symbol -> record
    sentiment_data,    \* [sector_sentiment]: ordered map sector -> record
    mutual_fund_data,  \* ordered map code -> fund record
    commodity_data,    \* ordered map name -> commodity record
    sip_data,          \* ordered map name -> SIP plan record
    capacity,          \* last return of calculate_investment_capacity
    allocation,        \* last return of determine_asset_allocation
    stock_recs,        \* last return of recommend_stocks
    fund_recs,         \* last return of recommend_mutual_funds
    commodity_recs,    \* last return of recommend_commodities
    sip_recs,          \* last return of recommend_sip
    response,          \* last return of an API entry point
    guidance,          \* last return of generate_portfolio_guidance
    fundamental_scores, \* recommend_stocks: its fundamental_scores at line 366
    stock_scores,      \* recommend_stocks: its stock_scores at line 515
    fund_scores,       \* recommend_mutual_funds: its fund_scores at line 735
    commodity_scores,  \* recommend_commodities: its commodity_scores at line 879
    sip_scores,        \* recommend_sip: its sip_scores at line 1027
    ncalls,            \* scorer name -> number of calls made so far
    returned,          \* scorer name -> set of the values it has returned
    pc,                \* scorer name -> where a call running in steps stands
    request            \* make_request_with_retry: the call in progress

vars == <<profile_dict, profile, stock_data, sentiment_data, mutual_fund_data,
          commodity_data, sip_data, capacity, allocation, stock_recs,
          fund_recs, commodity_recs, sip_recs, response, guidance,
          fundamental_scores, stock_scores, fund_scores, commodity_scores,
          sip_scores, ncalls, returned, pc, request>>

inputs == <<profile_dict, profile, stock_data, sentiment_data,
            mutual_fund_data, commodity_data, sip_data>>

outputs == <<capacity, allocation, stock_recs, fund_recs, commodity_recs,
             sip_recs, response, guidance>>

locals == <<fundamental_scores, stock_scores, fund_scores, commodity_scores,
            sip_scores>>

history == <<ncalls, returned, pc>>

-----------------------------------------------------------------------------
(* Generic helpers *)

Min(a, b) == IF a < b THEN a ELSE b
Max(a, b) == IF a > b THEN a ELSE b
Abs(a) == IF a < 0 THEN -a ELSE a

\* An optional value: <<>> is "nothing yet", <<x>> holds x.
Nothing == <<>>
Some(x) == <<x>>
IsSome(o) == Len(o) = 1
The(o) == o[1]

\* floor(n / d) for d > 0 and any integer n
FloorDiv(n, d) == IF n >= 0 THEN n \div d ELSE -((-n + d - 1) \div d)

\* n / d rounded to the nearest integer, ties to even (Python's round), d > 0
RoundDiv(n, d) ==
    LET q == FloorDiv(n, d)
        r == n - q * d
    IN  IF 2 * r < d THEN q
        ELSE IF 2 * r > d THEN q + 1
        ELSE IF q % 2 = 0 THEN q ELSE q + 1

RECURSIVE SumSeq(_)
SumSeq(s) == IF s = <<>> THEN 0 ELSE Head(s) + SumSeq(Tail(s))

\* a slice that keeps everything
TakeAll(s, n) == s

\* s[:n]
Take(s, n) == SubSeq(s, 1, Min(n, Len(s)))

\* an insertion that puts an item before the items of equal score
RECURSIVE InsertDescTiesReversed(_, _)
InsertDescTiesReversed(sorted, x) ==
    IF sorted = <<>> THEN <<x>>
    ELSE IF Head(sorted).score > x.score
         THEN <<Head(sorted)>> \o InsertDescTiesReversed(Tail(sorted), x)
         ELSE <<x>> \o sorted

\* sorted(items, key=lambda x: x["score"], reverse=True): stable, descending
RECURSIVE InsertDesc(_, _)
InsertDesc(sorted, x) ==
    IF sorted = <<>> THEN <<x>>
    ELSE IF Head(sorted).score >= x.score
         THEN <<Head(sorted)>> \o InsertDesc(Tail(sorted), x)
         ELSE <<x>> \o sorted

\* the list left in insertion order
NotSorted(s) == s

RECURSIVE SortDesc(_)
SortDesc(items) ==
    IF items = <<>> THEN <<>>
    ELSE InsertDesc(SortDesc(SubSeq(items, 1, Len(items) - 1)), items[Len(items)])

\* sub in s, for strings as character sequences
Contains(s, sub) ==
    \E i \in 1..(Len(s) - Len(sub) + 1) : SubSeq(s, i, i + Len(sub) - 1) = sub

\* dict lookup in an ordered map
HasKey(m, k) == \E i \in 1..Len(m) : m[i].key = k
Lookup(m, k) == m[CHOOSE i \in 1..Len(m) : m[i].key = k].rec

-----------------------------------------------------------------------------
(* Field values of the externally supplied records.                         *)
(*   k = "absent": the key is not in the dict     k = "none":  None         *)
(*   k = "num":    an int or float, v = value x100                          *)
(*   k = "numstr": a string float() parses, v = value x100                  *)
(*   k = "empty":  the string ""      k = "text": a non-numeric string      *)
(*   k = "range":  a string "N-M years" (recommended_duration), v = N x100  *)
(*   k = "badrange": a string with "-" whose head int() rejects             *)
(* Rupee amounts (profile amounts, min_investment, prices) are the          *)
(* exception: their v is in whole rupees.                                   *)

Absent == [k |-> "absent", v |-> 0]
None == [k |-> "none", v |-> 0]
Num(x) == [k |-> "num", v |-> x]
NumStr(x) == [k |-> "numstr", v |-> x]
EmptyStr == [k |-> "empty", v |-> 0]
Text == [k |-> "text", v |-> 0]

\* d.get(key) is not None
NotNone(f) == f.k \notin {"absent", "none"}
\* d.get(key) is not None and d.get(key) != ""
Given(f) == NotNone(f) /\ f.k # "empty"
\* float(x) returns (otherwise it raises ValueError or TypeError)
Parses(f) == f.k \in {"num", "numstr"}
\* x > 0 and x < 0 on the raw value return only for a number; a str or None raises TypeError
Comparable(f) == f.k = "num"

-----------------------------------------------------------------------------
(* Capacity and allocation (recommendation_engine.py, lines 18-139) *)

\* the comparison with the debt measured against a year's income
RatioAboveHalfOfAnnualIncome(ratio) == ratio.inf \/ 2 * ratio.num > 12 * ratio.den

\* the floor left out
NotFloored(x) == x

\* debt_to_income_ratio > 0.5, the ratio being current_debt / monthly_income,
\* or float('inf') when monthly_income is not positive
RatioAboveHalf(ratio) == ratio.inf \/ 2 * ratio.num > ratio.den

\* abs(x) in place of max(0, x)
Magnitude(x) == Abs(x)

\* max(0, x) of lines 61-64
NonNegative(x) == Max(0, x)

\* Money results are in tenths of a rupee (x10): 0.3 and 0.7 of a whole-rupee
\* surplus and 0.8 of a whole-rupee savings surplus are exact in tenths.
calculate_investment_capacity(p) ==
    LET monthly_surplus == p.monthly_income - p.monthly_expense
        debt_to_income_ratio ==
            IF p.monthly_income > 0
            THEN [inf |-> FALSE, num |-> p.current_debt, den |-> p.monthly_income]
            ELSE [inf |-> TRUE, num |-> 0, den |-> 1]
        net_worth == p.current_savings + p.existing_investments - p.current_debt
        emergency_fund_requirement == p.monthly_expense * 6
        current_savings_surplus ==
            Max(0, p.current_savings - emergency_fund_requirement)
        recommended_monthly_investment ==
            IF RatioAboveHalf(debt_to_income_ratio)
            THEN monthly_surplus * 3 ELSE monthly_surplus * 7
        debt_payment_recommendation ==
            IF RatioAboveHalf(debt_to_income_ratio)
            THEN monthly_surplus * 7 ELSE monthly_surplus * 3
        lump_sum_investment_capacity == current_savings_surplus * 8
    IN  [monthly_surplus |-> monthly_surplus * 10,
         debt_to_income_ratio |-> debt_to_income_ratio,
         net_worth |-> net_worth * 10,
         emergency_fund_requirement |-> emergency_fund_requirement * 10,
         current_savings_surplus |-> current_savings_surplus * 10,
         recommended_monthly_investment |->
            NonNegative(recommended_monthly_investment),
         lump_sum_investment_capacity |-> NonNegative(lump_sum_investment_capacity),
         debt_payment_recommendation |-> NonNegative(debt_payment_recommendation)]

\* round(x, 2) of a percentage held as the fraction n / d of a hundredth
Round2(n, d) == RoundDiv(n, d)

\* a total that leaves the commodity share out
AllocationTotalWithoutCommodity(equity, debt, commodity) == equity + debt

\* total = equity_allocation + debt_allocation + commodity_allocation
AllocationTotal(equity, debt, commodity) == equity + debt + commodity

\* (part / total) * 100, in hundredths of a percent
Renormalise(part, total) == Round2(part * 100 * 100, total)

\* a large-cap share that falls by risk / 10 instead of risk / 30
BreakdownSharesSteepLargeCap(risk_tolerance) ==
    [large_cap |-> 42 - 6 * risk_tolerance,
     mid_cap |-> 12 + risk_tolerance,
     small_cap |-> 6 + risk_tolerance,
     govt_bonds |-> 24, corporate_bonds |-> 36]

\* lines 117-124, the factors of the breakdowns in sixtieths: 0.7 - risk/30,
\* 0.2 + risk/60 and 0.1 + risk/60 of the equity, 0.4 and 0.6 of the debt
BreakdownShares(risk_tolerance) ==
    [large_cap |-> 42 - 2 * risk_tolerance,
     mid_cap |-> 12 + risk_tolerance,
     small_cap |-> 6 + risk_tolerance,
     govt_bonds |-> 24, corporate_bonds |-> 36]

\* the cut applied to the long horizons instead of the short ones
ShortTermEquityCutAbove3(equity_allocation, investment_horizon) ==
    IF investment_horizon > 3
    THEN Max((equity_allocation * 7) \div 10, 2000) ELSE equity_allocation

\* lines 102-104: max(equity_allocation * 0.7, 20) when the horizon is
\* below 3 years
ShortTermEquity(equity_allocation, investment_horizon) ==
    IF investment_horizon < 3
    THEN Max((equity_allocation * 7) \div 10, 2000) ELSE equity_allocation

\* Percentages are in hundredths of a percent (x100).
determine_asset_allocation(p) ==
    LET risk_tolerance == p.risk_tolerance
        investment_horizon == p.investment_horizon
        equity_base == Min(30 + risk_tolerance * 5, 90) * 100
        horizon_factor == Min(investment_horizon * 50, 500)
        equity0 == Min(equity_base + horizon_factor * 2, 9000)
        debt0 == 10000 - equity0 - 500
        equity1 == ShortTermEquity(equity0, investment_horizon)
        debt1 == IF investment_horizon < 3
                 THEN 10000 - equity1 - 500 ELSE debt0
        commodity1 == 500
        total == AllocationTotal(equity1, debt1, commodity1)
        equity_allocation == Renormalise(equity1, total)
        debt_allocation == Renormalise(debt1, total)
        commodity_allocation == Renormalise(commodity1, total)
        shares == BreakdownShares(risk_tolerance)
    IN  [equity |-> equity_allocation,
         equity_breakdown |->
            [large_cap |-> Round2(equity_allocation * shares.large_cap, 60),
             mid_cap |-> Round2(equity_allocation * shares.mid_cap, 60),
             small_cap |-> Round2(equity_allocation * shares.small_cap, 60)],
         debt |-> debt_allocation,
         debt_breakdown |->
            [govt_bonds |-> Round2(debt_allocation * shares.govt_bonds, 60),
             corporate_bonds |-> Round2(debt_allocation * shares.corporate_bonds, 60)],
         commodities |-> commodity_allocation]

-----------------------------------------------------------------------------
(* recommend_stocks, fundamental phase (recommendation_engine.py, 171-374).  *)
(* A signal is [pts, why]: the points it adds (x100) and the reasons it      *)
(* appends.  Reasons are the texts of the source without the formatted       *)
(* figures.                                                                  *)

NoSignal == [pts |-> 0, why |-> <<>>]
Signal(points, reason) == [pts |-> 100 * points, why |-> <<reason>>]
\* a signal that adds a number of halves (0.5, -0.5)
HalfSignal(halves, reason) == [pts |-> 50 * halves, why |-> <<reason>>]
\* points without a reason
Points(points) == [pts |-> 100 * points, why |-> <<>>]

PeSignal(fund) ==
    LET pe_ratio == fund.pe_ratio.v
    IN  IF ~(Given(fund.pe_ratio) /\ Parses(fund.pe_ratio)) THEN NoSignal
        ELSE IF 500 < pe_ratio /\ pe_ratio < 2000 THEN Signal(4, "Attractive P/E ratio")
        ELSE IF 2000 <= pe_ratio /\ pe_ratio < 3000 THEN Signal(2, "Reasonable P/E ratio")
        ELSE IF 3000 <= pe_ratio /\ pe_ratio < 4000 THEN Signal(1, "P/E ratio")
        ELSE NoSignal

IndustryPeSignal(fund) ==
    LET pe_ratio == fund.pe_ratio.v
        industry_pe == fund.industry_pe.v
    IN  IF ~(NotNone(fund.pe_ratio) /\ NotNone(fund.industry_pe)
             /\ Parses(fund.pe_ratio) /\ Parses(fund.industry_pe)) THEN NoSignal
        ELSE IF pe_ratio * 10 < industry_pe * 8
             THEN Signal(4, "P/E ratio significantly below industry average")
        ELSE IF pe_ratio < industry_pe
             THEN Signal(2, "P/E ratio below industry average")
        ELSE NoSignal

RoeSignal(fund) ==
    LET roe == fund.roe.v
    IN  IF ~(Given(fund.roe) /\ Parses(fund.roe)) THEN NoSignal
        ELSE IF roe > 2000 THEN Signal(5, "Excellent ROE")
        ELSE IF roe > 1500 THEN Signal(4, "Strong ROE")
        ELSE IF roe > 1000 THEN Signal(3, "Good ROE")
        ELSE IF roe > 500 THEN Signal(1, "Positive ROE")
        ELSE NoSignal

DebtToEquitySignal(fund) ==
    LET debt_to_equity == fund.debt_to_equity.v
    IN  IF ~(Given(fund.debt_to_equity) /\ Parses(fund.debt_to_equity)) THEN NoSignal
        ELSE IF debt_to_equity < 30
             THEN Signal(4, "Exceptionally low debt-to-equity ratio")
        ELSE IF debt_to_equity < 60 THEN Signal(3, "Very low debt-to-equity ratio")
        ELSE IF debt_to_equity < 100 THEN Signal(2, "Good debt-to-equity ratio")
        ELSE IF debt_to_equity < 150 THEN Signal(1, "Reasonable debt-to-equity ratio")
        ELSE NoSignal

EpsSignal(fund) ==
    LET eps == fund.eps.v
    IN  IF ~(Given(fund.eps) /\ Parses(fund.eps)) THEN NoSignal
        ELSE IF eps > 5000 THEN Signal(4, "High EPS")
        ELSE IF eps > 2000 THEN Signal(3, "Good EPS")
        ELSE IF eps > 1000 THEN Signal(2, "Positive EPS")
        ELSE NoSignal

DividendYieldSignal(fund) ==
    LET div_yield == fund.dividend_yield.v
    IN  IF ~(Given(fund.dividend_yield) /\ Parses(fund.dividend_yield)) THEN NoSignal
        ELSE IF div_yield > 400 THEN Signal(3, "Excellent dividend yield")
        ELSE IF div_yield > 200 THEN Signal(2, "Good dividend yield")
        ELSE IF div_yield > 100 THEN Signal(1, "Positive dividend yield")
        ELSE NoSignal

ProfitGrowthSignal(fund) ==
    LET profit_growth == fund.profit_growth.v
    IN  IF ~(Given(fund.profit_growth) /\ Parses(fund.profit_growth)) THEN NoSignal
        ELSE IF profit_growth > 3000 THEN Signal(5, "Exceptional profit growth")
        ELSE IF profit_growth > 2000 THEN Signal(4, "Strong profit growth")
        ELSE IF profit_growth > 1000 THEN Signal(3, "Good profit growth")
        ELSE IF profit_growth > 500 THEN Signal(1, "Positive profit growth")
        ELSE NoSignal

\* market_cap is held in crore rupees (x100): the source divides the rupee
\* figure by 10000000 before it compares.
MarketCapCategory(fund) ==
    IF ~(Given(fund.market_cap) /\ Parses(fund.market_cap)) THEN "Unknown"
    ELSE IF fund.market_cap.v > 50000 * 100 THEN "Large Cap"
    ELSE IF fund.market_cap.v > 5000 * 100 THEN "Mid Cap"
    ELSE "Small Cap"

MarketCapSignal(fund, risk_tolerance) ==
    LET category == MarketCapCategory(fund)
    IN  IF category = "Large Cap" /\ risk_tolerance <= 4
        THEN Signal(3, "Large cap stock aligns with your lower risk profile")
        ELSE IF category = "Mid Cap" /\ 4 < risk_tolerance /\ risk_tolerance < 8
        THEN Signal(3, "Mid cap stock aligns with your moderate risk profile")
        ELSE IF category = "Small Cap" /\ risk_tolerance >= 7
        THEN Signal(3, "Small cap stock aligns with your higher risk profile")
        ELSE NoSignal

\* fund.get("sector", "Unknown"); an absent sector is held as ""
SectorOf(fund) == IF fund.sector = "" THEN "Unknown" ELSE fund.sector

\* sector_sent.get(...) raises AttributeError when the entry is not a dict
SectorSentimentRaises(fund, sector_sentiment) ==
    /\ HasKey(sector_sentiment, SectorOf(fund))
    /\ ~Lookup(sector_sentiment, SectorOf(fund)).isdict

SectorSentimentSignal(fund, sector_sentiment) ==
    IF ~HasKey(sector_sentiment, SectorOf(fund)) THEN NoSignal
    ELSE LET sector_sent == Lookup(sector_sentiment, SectorOf(fund))
         IN  IF sector_sent.sentiment = "positive"
             THEN Signal(2, "Positive sentiment for sector")
             ELSE IF sector_sent.sentiment = "neutral"
             THEN Signal(1, "Neutral sentiment for sector")
             ELSE NoSignal

\* all(key in fund and fund[key] is not None for key in [...])
CompleteDataSignal(fund) ==
    IF /\ NotNone(fund.pe_ratio) /\ NotNone(fund.roe)
       /\ NotNone(fund.debt_to_equity) /\ NotNone(fund.eps)
    THEN Signal(1, "Complete fundamental analysis available")
    ELSE NoSignal

FundamentalSignals(fund, prof, sector_sentiment) ==
    << PeSignal(fund), IndustryPeSignal(fund), RoeSignal(fund),
       DebtToEquitySignal(fund), EpsSignal(fund), DividendYieldSignal(fund),
       ProfitGrowthSignal(fund), MarketCapSignal(fund, prof.risk_tolerance),
       SectorSentimentSignal(fund, sector_sentiment), CompleteDataSignal(fund) >>

RECURSIVE SumPts(_)
SumPts(signals) ==
    IF signals = <<>> THEN 0 ELSE Head(signals).pts + SumPts(Tail(signals))

RECURSIVE AllWhy(_)
AllWhy(signals) ==
    IF signals = <<>> THEN <<>> ELSE Head(signals).why \o AllWhy(Tail(signals))

FundFields == {"pe_ratio", "industry_pe", "roe", "debt_to_equity", "eps",
               "dividend_yield", "profit_growth", "market_cap"}

\* not fund: the record is the empty dict
EmptyFund(fund) ==
    /\ \A f \in FundFields : fund[f].k = "absent"
    /\ fund.sector = "" /\ fund.name = ""

\* One pass of the loop of lines 174-364 for a symbol: an entry of
\* fundamental_scores, or kept = FALSE when the symbol is skipped (empty
\* record) or its processing raised.
FundamentalScore(symbol, fund, prof, sector_sentiment) ==
    LET signals == FundamentalSignals(fund, prof, sector_sentiment)
        kept == ~EmptyFund(fund) /\ ~SectorSentimentRaises(fund, sector_sentiment)
    IN  [kept |-> kept,
         symbol |-> symbol,
         name |-> IF fund.name = "" THEN symbol ELSE fund.name,
         sector |-> SectorOf(fund),
         market_cap_category |-> MarketCapCategory(fund),
         score |-> IF kept THEN SumPts(signals) ELSE 0,
         reasons |-> IF kept THEN AllWhy(signals) ELSE <<>>]

-----------------------------------------------------------------------------
(* recommend_stocks, technical phase and ranking (lines 376-565).            *)
(* The technical block has one try around all signals: a float() of a        *)
(* non-numeric value, or a comparison of None or a string with 0, raises     *)
(* and the symbol is skipped.                                                *)

\* "x is not None" holds and float(x) raises
FloatRaises(f) == NotNone(f) /\ ~Parses(f)

\* tech.get(key, 0)
GetOrZero(f) == IF f.k = "absent" THEN Num(0) ELSE f

\* tech.get(key, 0) > 0 or < 0 raises TypeError
CompareRaises(f) == ~Comparable(GetOrZero(f))

PriceToMa50Signal(tech) ==
    LET price_to_ma50 == tech.price_to_ma50.v
    IN  IF ~NotNone(tech.price_to_ma50) THEN NoSignal
        ELSE IF price_to_ma50 > 110
             THEN Signal(3, "Very strong bullish trend (price 10% above 50-day MA)")
        ELSE IF price_to_ma50 > 105
             THEN Signal(2, "Strong bullish trend (price 5% above 50-day MA)")
        ELSE IF price_to_ma50 > 100 THEN Signal(1, "Price above 50-day moving average")
        ELSE NoSignal

PriceToMa200Signal(tech) ==
    LET price_to_ma200 == tech.price_to_ma200.v
    IN  IF ~NotNone(tech.price_to_ma200) THEN NoSignal
        ELSE IF price_to_ma200 > 120
             THEN Signal(4, "Exceptional long-term uptrend (price 20% above 200-day MA)")
        ELSE IF price_to_ma200 > 110
             THEN Signal(3, "Strong long-term uptrend (price 10% above 200-day MA)")
        ELSE IF price_to_ma200 > 100
             THEN Signal(2, "Price above 200-day moving average (bullish)")
        ELSE NoSignal

RsiSignal(tech) ==
    LET rsi == tech.rsi.v
    IN  IF ~NotNone(tech.rsi) THEN NoSignal
        ELSE IF 4500 <= rsi /\ rsi <= 5500 THEN Signal(2, "RSI in optimal neutral zone")
        ELSE IF 5500 < rsi /\ rsi < 6500
             THEN Signal(3, "RSI showing strength without overheating")
        ELSE IF 6500 <= rsi /\ rsi < 7000 THEN Signal(1, "RSI showing strength")
        ELSE IF rsi >= 7000 THEN Signal(-1, "RSI in overbought territory")
        ELSE IF 3000 < rsi /\ rsi <= 4000
             THEN Signal(1, "RSI in potential accumulation zone")
        ELSE IF rsi <= 3000
             THEN HalfSignal(1, "RSI in oversold territory - potential bounce")
        ELSE NoSignal

MacdEntered(tech) == NotNone(tech.macd) /\ NotNone(tech.macd_signal)

\* macd > 0 and macd > macd_signal: only then is the histogram compared
MacdStrongPrefix(tech) ==
    tech.macd.v > 0 /\ tech.macd.v > tech.macd_signal.v

MacdRaises(tech) ==
    /\ MacdEntered(tech)
    /\ \/ ~Parses(tech.macd)
       \/ ~Parses(tech.macd_signal)
       \/ MacdStrongPrefix(tech) /\ CompareRaises(tech.macd_histogram)
       \/ CompareRaises(tech.macd_histogram)
       \/ /\ GetOrZero(tech.macd_histogram).v > 0
          /\ CompareRaises(tech.macd_histogram_prev)

MacdSignal(tech) ==
    IF ~MacdEntered(tech) THEN NoSignal
    ELSE IF MacdStrongPrefix(tech) /\ GetOrZero(tech.macd_histogram).v > 0
         THEN Signal(3, "Strong MACD bullish signal (positive and above signal line)")
    ELSE IF tech.macd.v > tech.macd_signal.v
         THEN Signal(2, "MACD above signal line (bullish)")
    ELSE HalfSignal(-1, "MACD below signal line (bearish)")

MacdCrossoverSignal(tech) ==
    IF /\ MacdEntered(tech)
       /\ GetOrZero(tech.macd_histogram).v > 0
       /\ GetOrZero(tech.macd_histogram_prev).v < 0
    THEN Signal(3, "Recent MACD bullish crossover (strong buy signal)")
    ELSE NoSignal

VolumeChangeSignal(tech) ==
    LET volume_change == tech.volume_change.v
    IN  IF ~NotNone(tech.volume_change) THEN NoSignal
        ELSE IF volume_change > 200 THEN Signal(2, "Very high trading volume")
        ELSE IF volume_change > 150 THEN Signal(1, "Higher than average volume")
        ELSE NoSignal

DayChangeSignal(tech) ==
    LET day_change == tech.day_change.v
    IN  IF ~NotNone(tech.day_change) THEN NoSignal
        ELSE IF day_change > 300 THEN Signal(2, "Strong positive momentum")
        ELSE IF day_change > 100 THEN Signal(1, "Positive momentum")
        ELSE NoSignal

VolatilitySignal(tech, risk_tolerance) ==
    LET volatility == tech.volatility.v
    IN  IF ~NotNone(tech.volatility) THEN NoSignal
        ELSE IF risk_tolerance >= 8 /\ volatility > 3000
             THEN Signal(1, "High volatility aligned with your risk profile")
        ELSE IF /\ 4 <= risk_tolerance /\ risk_tolerance <= 7
                /\ 1500 <= volatility /\ volatility <= 3000
             THEN Signal(1, "Moderate volatility aligned with your risk profile")
        ELSE IF risk_tolerance <= 3 /\ volatility < 1500
             THEN Signal(1, "Low volatility aligned with your risk profile")
        ELSE NoSignal

TechnicalSignals(tech, prof) ==
    << PriceToMa50Signal(tech), PriceToMa200Signal(tech), RsiSignal(tech),
       MacdSignal(tech), MacdCrossoverSignal(tech), VolumeChangeSignal(tech),
       DayChangeSignal(tech), VolatilitySignal(tech, prof.risk_tolerance) >>

TechFields == {"price_to_ma50", "price_to_ma200", "rsi", "macd", "macd_signal",
               "macd_histogram", "macd_histogram_prev", "volume_change",
               "day_change", "volatility", "current_price"}

\* a check for the empty dict that never finds one
NeverEmpty(tech) == FALSE

\* not tech: the record is the empty dict
EmptyTech(tech) == \A f \in TechFields : tech[f].k = "absent"

\* the try block of lines 391-513 raises
TechnicalRaises(tech) ==
    \/ FloatRaises(tech.price_to_ma50)
    \/ FloatRaises(tech.price_to_ma200)
    \/ FloatRaises(tech.rsi)
    \/ MacdRaises(tech)
    \/ FloatRaises(tech.volume_change)
    \/ FloatRaises(tech.day_change)
    \/ FloatRaises(tech.volatility)

\* One pass of the loop of lines 379-513 for an entry of top_fundamental_stocks:
\* an entry of stock_scores, or kept = FALSE when the symbol is skipped.
TechnicalScore(stock, tech, fund, prof) ==
    LET signals == TechnicalSignals(tech, prof)
        kept == ~EmptyTech(tech) /\ ~TechnicalRaises(tech)
    IN  [kept |-> kept,
         symbol |-> stock.symbol,
         name |-> stock.name,
         sector |-> stock.sector,
         market_cap_category |-> stock.market_cap_category,
         score |-> IF kept THEN stock.score + SumPts(signals) ELSE 0,
         current_price |-> tech.current_price,
         pe_ratio |-> fund.pe_ratio,
         dividend_yield |-> fund.dividend_yield,
         reasons |-> IF kept THEN stock.reasons \o AllWhy(signals) ELSE <<>>]

TopFundamental == 25
TopStocks == 8
MaxPossibleScore == 25
MinPossibleScore == -3

\* the normalised score without max(1, min(10, ...))
RecommendationStrengthUnclamped(score) ==
    RoundDiv((score - 100 * MinPossibleScore) * 10 * 115 * 10,
             100 * (MaxPossibleScore - MinPossibleScore) * 100)

\* round(max(1, min(10, ((score - min) / (max - min)) * 10 * 1.15)), 1), in
\* tenths, for a score in hundredths
RecommendationStrength(score) ==
    LET num == (score - 100 * MinPossibleScore) * 10 * 115
        den == 100 * (MaxPossibleScore - MinPossibleScore) * 100
    IN  IF num < den THEN 10
        ELSE IF num > 10 * den THEN 100
        ELSE RoundDiv(num * 10, den)

RECURSIVE SelectKept(_)
SelectKept(items) ==
    IF items = <<>> THEN <<>>
    ELSE IF Head(items).kept THEN <<Head(items)>> \o SelectKept(Tail(items))
    ELSE SelectKept(Tail(items))

\* [symbol for symbol in technical_data.keys() if symbol in fundamental_data]
RECURSIVE ValidStocks(_, _)
ValidStocks(technical_data, fundamental_data) ==
    IF technical_data = <<>> THEN <<>>
    ELSE (IF HasKey(fundamental_data, Head(technical_data).key)
          THEN <<Head(technical_data).key>> ELSE <<>>)
         \o ValidStocks(Tail(technical_data), fundamental_data)

\* fundamental_scores.values(), in insertion order
FundamentalScores(valid_stocks, fundamental_data, prof, sector_sentiment) ==
    SelectKept([i \in 1..Len(valid_stocks) |->
        FundamentalScore(valid_stocks[i], Lookup(fundamental_data, valid_stocks[i]),
                         prof, sector_sentiment)])

TopFundamentalStocks(sdata, prof, sentiment) ==
    Take(SortDesc(FundamentalScores(
             ValidStocks(sdata.technical, sdata.fundamental),
             sdata.fundamental, prof, sentiment.sector_sentiment)),
         TopFundamental)

\* stock_scores.values(), in insertion order
StockScores(top_fundamental_stocks, sdata, prof) ==
    SelectKept([i \in 1..Len(top_fundamental_stocks) |->
        TechnicalScore(top_fundamental_stocks[i],
                       Lookup(sdata.technical, top_fundamental_stocks[i].symbol),
                       Lookup(sdata.fundamental, top_fundamental_stocks[i].symbol),
                       prof)])

FormatStock(stock) ==
    [symbol |-> stock.symbol,
     name |-> stock.name,
     market_cap_info |-> IF stock.market_cap_category # "Unknown"
                         THEN stock.market_cap_category ELSE "",
     sector_info |-> IF stock.sector # "Unknown" THEN stock.sector
                     ELSE "Diverse Sector",
     current_price |-> stock.current_price,
     pe_ratio |-> stock.pe_ratio,
     dividend_yield |-> stock.dividend_yield,
     recommendation_strength |-> RecommendationStrength(stock.score),
     reason |-> Take(stock.reasons, 3),
     raw_score |-> stock.score]

recommend_stocks(prof, sdata, sentiment) ==
    LET top_fundamental_stocks == TopFundamentalStocks(sdata, prof, sentiment)
        top_stocks ==
            Take(SortDesc(StockScores(top_fundamental_stocks, sdata, prof)), TopStocks)
    IN  [i \in 1..Len(top_stocks) |-> FormatStock(top_stocks[i])]

-----------------------------------------------------------------------------
(* recommend_commodities (lines 765-904) *)

GoldName == <<"G", "o", "l", "d">>
SilverName == <<"S", "i", "l", "v", "e", "r">>
CopperName == <<"C", "o", "p", "p", "e", "r">>
AluminiumName == <<"A", "l", "u", "m", "i", "n", "i", "u", "m">>
CrudeOilName == <<"C", "r", "u", "d", "e", " ", "O", "i", "l">>
OilWord == <<"O", "i", "l">>

CommodityBaseSignal(commodity_name) ==
    IF commodity_name = GoldName
    THEN Signal(5, "Gold is a traditional hedge against inflation and market volatility")
    ELSE IF commodity_name = SilverName
    THEN Signal(4, "Silver offers industrial usage and investment potential")
    ELSE IF Contains(commodity_name, OilWord)
    THEN Signal(3, "Energy commodities offer portfolio diversification")
    ELSE Signal(2, "adds diversification to your portfolio")

CommodityDayChangeSignal(commodity) ==
    LET day_change == commodity.day_change.v
    IN  IF ~(NotNone(commodity.day_change) /\ Parses(commodity.day_change)) THEN NoSignal
        ELSE IF day_change > 100 THEN Signal(2, "Showing positive momentum")
        ELSE IF day_change > 0 THEN Signal(1, "Slight positive trend")
        ELSE IF day_change < -100 THEN Signal(-1, "Recent downward trend")
        ELSE NoSignal

\* the tiers as independent tests instead of one if/elif/else chain
CommodityRiskSignalEveryTier(commodity_name, risk_tolerance) ==
    [pts |-> (IF risk_tolerance <= 3 /\ commodity_name = GoldName THEN 300 ELSE 0)
             + (IF risk_tolerance <= 7 /\ commodity_name \in {GoldName, SilverName}
                THEN 200 ELSE 0)
             + (IF risk_tolerance > 7 /\ commodity_name \notin {GoldName, SilverName}
                THEN 200 ELSE 0),
     why |-> <<>>]

\* the moderate tier ending below 7 instead of at 7
CommodityRiskSignalModerateBelow7(commodity_name, risk_tolerance) ==
    IF risk_tolerance <= 3
    THEN IF commodity_name = GoldName
         THEN Signal(3, "Gold aligns well with your conservative risk profile")
         ELSE NoSignal
    ELSE IF risk_tolerance < 7
    THEN IF commodity_name \in {GoldName, SilverName}
         THEN Signal(2, "Precious metals align with your moderate risk profile")
         ELSE NoSignal
    ELSE IF commodity_name \notin {GoldName, SilverName}
         THEN Signal(2, "offers growth potential matching your higher risk profile")
         ELSE NoSignal

CommodityRiskSignal(commodity_name, risk_tolerance) ==
    IF risk_tolerance <= 3
    THEN IF commodity_name = GoldName
         THEN Signal(3, "Gold aligns well with your conservative risk profile")
         ELSE NoSignal
    ELSE IF risk_tolerance <= 7
    THEN IF commodity_name \in {GoldName, SilverName}
         THEN Signal(2, "Precious metals align with your moderate risk profile")
         ELSE NoSignal
    ELSE IF commodity_name \notin {GoldName, SilverName}
         THEN Signal(2, "offers growth potential matching your higher risk profile")
         ELSE NoSignal

CommodityHorizonSignal(commodity_name, investment_horizon) ==
    IF investment_horizon <= 2
    THEN IF commodity_name = GoldName
         THEN Signal(2, "Suitable for your shorter investment horizon")
         ELSE NoSignal
    ELSE IF investment_horizon >= 5
    THEN IF commodity_name \in {CopperName, AluminiumName, CrudeOilName}
         THEN Signal(2, "Good for long-term growth with your investment horizon")
         ELSE NoSignal
    ELSE NoSignal

\* commodity_allocation < 5 in place of <= 5
CommodityAllocationSignalBelow5(commodity_name, commodity_allocation) ==
    IF commodity_allocation < 500 /\ commodity_name = GoldName
    THEN Signal(1, "Optimal for small commodity allocation in your portfolio")
    ELSE NoSignal

CommodityAllocationSignal(commodity_name, commodity_allocation) ==
    IF commodity_allocation <= 500 /\ commodity_name = GoldName
    THEN Signal(1, "Optimal for small commodity allocation in your portfolio")
    ELSE NoSignal

CommoditySignals(commodity_name, commodity, prof) ==
    << CommodityBaseSignal(commodity_name),
       CommodityDayChangeSignal(commodity),
       CommodityRiskSignal(commodity_name, prof.risk_tolerance),
       CommodityHorizonSignal(commodity_name, prof.investment_horizon),
       CommodityAllocationSignal(commodity_name,
                                 determine_asset_allocation(prof).commodities) >>

\* current_price = commodity.get("current_price", 0), replaced by 0 when falsy
CommodityPrice(commodity) ==
    IF \/ commodity.current_price.k \in {"absent", "none", "empty"}
       \/ commodity.current_price.k = "num" /\ commodity.current_price.v = 0
    THEN Num(0) ELSE commodity.current_price

\* an entry of commodity_scores
CommodityScore(commodity_name, commodity, prof) ==
    LET signals == CommoditySignals(commodity_name, commodity, prof)
    IN  [name |-> commodity_name,
         score |-> SumPts(signals),
         current_price |-> CommodityPrice(commodity),
         unit |-> commodity.unit,
         reasons |-> AllWhy(signals)]

CommodityScores(prof, cdata) ==
    [i \in 1..Len(cdata) |-> CommodityScore(cdata[i].key, cdata[i].rec, prof)]

TopCommodities == 3

FormatCommodity(commodity) ==
    [name |-> commodity.name,
     current_price |-> commodity.current_price,
     unit |-> commodity.unit,
     reason |-> Take(commodity.reasons, 2)]

recommend_commodities(prof, cdata) ==
    LET top_commodities == Take(SortDesc(CommodityScores(prof, cdata)), TopCommodities)
    IN  [i \in 1..Len(top_commodities) |-> FormatCommodity(top_commodities[i])]

-----------------------------------------------------------------------------
(* recommend_mutual_funds (lines 567-763) *)

\* risk_level_map.get(risk_level, 5), x100
RiskLevelMap(risk_level) ==
    CASE risk_level = "Very Low" -> 100
      [] risk_level = "Low" -> 300
      [] risk_level = "Medium" -> 500
      [] risk_level = "High" -> 800
      [] risk_level = "Very High" -> 1000
      [] OTHER -> 500

\* fund_risk of lines 601-618 (x100); an absent risk_level is held as ""
FundRisk(fund) ==
    IF NotNone(fund.risk_rating)
    THEN IF Parses(fund.risk_rating) THEN fund.risk_rating.v ELSE 500
    ELSE RiskLevelMap(IF fund.risk_level = "" THEN "Medium" ELSE fund.risk_level)

\* 10 - abs(risk_tolerance - asset_risk), with its reason when above 7
RiskMatchSignal(risk_tolerance, asset_risk) ==
    LET risk_match == 1000 - Abs(risk_tolerance * 100 - asset_risk)
    IN  [pts |-> risk_match,
         why |-> IF risk_match > 700
                 THEN <<"Risk profile aligns well with your tolerance">> ELSE <<>>]

FundReturnSignal(fund, investment_horizon) ==
    IF investment_horizon <= 1
    THEN IF ~(NotNone(fund.one_year_return) /\ Parses(fund.one_year_return))
         THEN NoSignal
         ELSE IF fund.one_year_return.v > 1000 THEN Signal(3, "Strong 1-year return")
         ELSE IF fund.one_year_return.v > 500 THEN Signal(2, "Good 1-year return")
         ELSE NoSignal
    ELSE IF investment_horizon <= 3
    THEN IF ~(/\ NotNone(fund.one_year_return) /\ NotNone(fund.three_year_return)
              /\ Parses(fund.one_year_return) /\ Parses(fund.three_year_return))
         THEN NoSignal
         ELSE IF fund.one_year_return.v + fund.three_year_return.v > 2 * 1200
              THEN Signal(3, "Strong avg return over 1-3 years")
         ELSE IF fund.one_year_return.v + fund.three_year_return.v > 2 * 800
              THEN Signal(2, "Good avg return over 1-3 years")
         ELSE NoSignal
    ELSE IF ~(/\ NotNone(fund.three_year_return) /\ NotNone(fund.five_year_return)
              /\ Parses(fund.three_year_return) /\ Parses(fund.five_year_return))
         THEN NoSignal
         ELSE IF fund.three_year_return.v + fund.five_year_return.v > 2 * 1200
              THEN Signal(5, "Excellent avg return over 3-5 years")
         ELSE IF fund.three_year_return.v + fund.five_year_return.v > 2 * 900
              THEN Signal(3, "Strong avg return over 3-5 years")
         ELSE NoSignal

\* the low-risk bonus moved out of the short-term branch
LowRiskSignalInEveryBand(fund, investment_horizon) ==
    IF FundRisk(fund) < 400
    THEN Signal(3, "Low risk suitable for short-term investment")
    ELSE NoSignal

\* lines 641-644: inside the short-term branch only
FundShortTermRiskSignal(fund, investment_horizon) ==
    IF investment_horizon <= 1 /\ FundRisk(fund) < 400
    THEN Signal(3, "Low risk suitable for short-term investment")
    ELSE NoSignal

FundCategorySignal(fund, asset_allocation) ==
    IF asset_allocation.equity > 6000 /\ fund.category = "Equity"
    THEN Signal(2, "Equity fund aligns with your recommended asset allocation")
    ELSE IF asset_allocation.debt > 6000 /\ fund.category = "Debt"
    THEN Signal(2, "Debt fund aligns with your recommended asset allocation")
    ELSE IF /\ 4000 <= asset_allocation.equity /\ asset_allocation.equity <= 6000
            /\ fund.category = "Hybrid"
    THEN Signal(3, "Hybrid fund perfectly aligns with your balanced allocation")
    ELSE NoSignal

FundExpenseSignal(fund) ==
    IF ~(NotNone(fund.expense_ratio) /\ Parses(fund.expense_ratio)) THEN NoSignal
    ELSE IF fund.expense_ratio.v < 50 THEN Signal(2, "Very low expense ratio")
    ELSE IF fund.expense_ratio.v < 100 THEN Signal(1, "Low expense ratio")
    ELSE NoSignal

FundAumSignal(fund) ==
    IF ~(NotNone(fund.aum_crores) /\ Parses(fund.aum_crores)) THEN NoSignal
    ELSE IF fund.aum_crores.v > 5000 * 100 THEN Signal(1, "Large fund size")
    ELSE NoSignal

FundSignals(fund, prof) ==
    << RiskMatchSignal(prof.risk_tolerance, FundRisk(fund)),
       FundReturnSignal(fund, prof.investment_horizon),
       FundShortTermRiskSignal(fund, prof.investment_horizon),
       FundCategorySignal(fund, determine_asset_allocation(prof)),
       FundExpenseSignal(fund),
       FundAumSignal(fund) >>

\* an entry of fund_scores
FundScore(fund_code, fund, prof) ==
    LET signals == FundSignals(fund, prof)
    IN  [code |-> fund_code,
         name |-> fund.name,
         category |-> fund.category,
         nav |-> fund.nav,
         one_year_return |-> fund.one_year_return,
         three_year_return |-> fund.three_year_return,
         five_year_return |-> fund.five_year_return,
         expense_ratio |-> fund.expense_ratio,
         score |-> SumPts(signals),
         reasons |-> AllWhy(signals)]

FundScores(prof, mfdata) ==
    [i \in 1..Len(mfdata) |-> FundScore(mfdata[i].key, mfdata[i].rec, prof)]

TopFunds == 7

FormatFund(fund) ==
    [code |-> fund.code,
     name |-> fund.name,
     category |-> fund.category,
     nav |-> fund.nav,
     expense_ratio |-> fund.expense_ratio,
     returns |-> [yr1 |-> fund.one_year_return,
                  yr3 |-> fund.three_year_return,
                  yr5 |-> fund.five_year_return],
     reason |-> Take(fund.reasons, 2)]

recommend_mutual_funds(prof, mfdata) ==
    LET top_funds == Take(SortDesc(FundScores(prof, mfdata)), TopFunds)
    IN  [i \in 1..Len(top_funds) |-> FormatFund(top_funds[i])]

-----------------------------------------------------------------------------
(* recommend_sip (lines 906-1062).  The loop has no try block: a TypeError   *)
(* of a plan's arithmetic leaves recommend_sip as an exception.              *)

EquityWord == <<"E", "q", "u", "i", "t", "y">>
BalancedWord == <<"B", "a", "l", "a", "n", "c", "e", "d">>
DebtWord == <<"D", "e", "b", "t">>
ElssWord == <<"E", "L", "S", "S">>
TaxWord == <<"T", "a", "x">>

\* lines 937-957; an absent (or None) risk_level is held as ""
SipRiskSignal(sip, risk_tolerance) ==
    IF sip.risk_level # ""
    THEN RiskMatchSignal(risk_tolerance, RiskLevelMap(sip.risk_level))
    ELSE IF NotNone(sip.risk_rating)
    THEN RiskMatchSignal(risk_tolerance, sip.risk_rating.v)
    ELSE NoSignal

\* risk_tolerance - sip["risk_rating"] raises TypeError for a string
SipRiskRaises(sip) ==
    sip.risk_level = "" /\ NotNone(sip.risk_rating) /\ sip.risk_rating.k # "num"

\* min_duration of lines 962-974: <<>> for None, else <<years x100>>
MinDuration(sip) ==
    IF sip.recommended_duration.k \in {"range", "num"}
    THEN Some(sip.recommended_duration.v)
    ELSE Nothing

SipDurationSignal(sip, investment_horizon) ==
    IF ~IsSome(MinDuration(sip)) THEN NoSignal
    ELSE IF investment_horizon * 100 >= The(MinDuration(sip))
    THEN Signal(3, "Your investment horizon meets the recommended minimum")
    ELSE Signal(-2, "Your investment horizon is less than the recommended minimum")

SipEquitySignal(sip_name, asset_allocation) ==
    IF Contains(sip_name, EquityWord) /\ asset_allocation.equity > 5000
    THEN Signal(2, "Equity allocation aligns with your asset allocation strategy")
    ELSE NoSignal

SipBalancedSignal(sip_name, asset_allocation) ==
    IF /\ Contains(sip_name, BalancedWord)
       /\ 3000 <= asset_allocation.equity /\ asset_allocation.equity <= 7000
    THEN Signal(3, "Balanced fund perfectly suits your moderate asset allocation")
    ELSE NoSignal

SipDebtSignal(sip_name, asset_allocation) ==
    IF Contains(sip_name, DebtWord) /\ asset_allocation.debt > 4000
    THEN Signal(2, "Debt allocation aligns with your asset allocation strategy")
    ELSE NoSignal

SipElssSignal(sip_name, risk_tolerance) ==
    IF ~(Contains(sip_name, ElssWord) \/ Contains(sip_name, TaxWord)) THEN NoSignal
    ELSE IF risk_tolerance >= 6
    THEN Signal(2, "ELSS provides tax benefits under Section 80C")
    ELSE Signal(-1, "ELSS may be too risky for your profile despite tax benefits")

\* recommended_monthly_investment is in tenths of a rupee, min_investment in rupees
SipMinInvestmentSignal(sip, recommended_monthly_investment) ==
    IF ~NotNone(sip.min_investment) THEN NoSignal
    ELSE IF recommended_monthly_investment >= sip.min_investment.v * 3 * 10
    THEN Signal(1, "Your monthly investment capacity easily covers the minimum requirement")
    ELSE IF recommended_monthly_investment < sip.min_investment.v * 10
    THEN Signal(-3, "Minimum investment exceeds your monthly capacity")
    ELSE NoSignal

\* sip["min_investment"] * 3 is a string for a string, and the comparison raises
SipMinInvestmentRaises(sip) ==
    NotNone(sip.min_investment) /\ sip.min_investment.k # "num"

SipSignals(sip_name, sip, prof) ==
    << SipRiskSignal(sip, prof.risk_tolerance),
       SipDurationSignal(sip, prof.investment_horizon),
       SipEquitySignal(sip_name, determine_asset_allocation(prof)),
       SipBalancedSignal(sip_name, determine_asset_allocation(prof)),
       SipDebtSignal(sip_name, determine_asset_allocation(prof)),
       SipElssSignal(sip_name, prof.risk_tolerance),
       SipMinInvestmentSignal(sip,
           calculate_investment_capacity(prof).recommended_monthly_investment) >>

SipRaises(sip) == SipRiskRaises(sip) \/ SipMinInvestmentRaises(sip)

\* an entry of sip_scores
SipScore(sip_name, sip, prof) ==
    LET signals == SipSignals(sip_name, sip, prof)
    IN  [name |-> sip_name,
         risk_level |-> sip.risk_level,
         min_investment |-> sip.min_investment,
         recommended_duration |-> sip.recommended_duration,
         expected_returns |-> sip.expected_returns,
         tax_benefits |-> IF sip.tax_benefits = "" THEN "No" ELSE sip.tax_benefits,
         score |-> SumPts(signals),
         reasons |-> AllWhy(signals)]

SipScores(prof, sdata) ==
    [i \in 1..Len(sdata) |-> SipScore(sdata[i].key, sdata[i].rec, prof)]

TopSips == 5

\* sum(sip["score"] for sip in top_sips) if top_sips else 1
TotalAllocation(top_sips) ==
    IF top_sips = <<>> THEN 100
    ELSE SumSeq([i \in 1..Len(top_sips) |-> top_sips[i].score])

\* round(recommended_monthly_investment * allocation_ratio, -2), in rupees
SuggestedMonthly(score, total_allocation, recommended_monthly_investment) ==
    IF total_allocation > 0
    THEN 100 * RoundDiv(recommended_monthly_investment * score,
                        total_allocation * 10 * 100)
    ELSE 100 * RoundDiv(recommended_monthly_investment * 2, 10 * 10 * 100)

\* the suggested amount returned as it is, whatever the plan's minimum
MonthlyAmountWithoutMinimum(sip, total_allocation, recommended_monthly_investment) ==
    SuggestedMonthly(sip.score, total_allocation, recommended_monthly_investment)

\* lines 1043-1045: raised to min_investment when that is truthy and larger
MonthlyAmount(sip, total_allocation, recommended_monthly_investment) ==
    LET suggested_monthly ==
            SuggestedMonthly(sip.score, total_allocation, recommended_monthly_investment)
    IN  IF /\ NotNone(sip.min_investment) /\ sip.min_investment.v # 0
           /\ suggested_monthly < sip.min_investment.v
        THEN sip.min_investment.v
        ELSE suggested_monthly

FormatSip(sip, total_allocation, recommended_monthly_investment) ==
    [name |-> sip.name,
     risk_level |-> sip.risk_level,
     monthly_amount |->
        MonthlyAmount(sip, total_allocation, recommended_monthly_investment),
     min_investment |-> sip.min_investment,
     expected_returns |-> sip.expected_returns,
     tax_benefits |-> sip.tax_benefits,
     reason |-> Take(sip.reasons, 2)]

\* [raised, recs]: raised = TRUE when the call ends in an exception
recommend_sip(prof, sdata) ==
    LET recommended_monthly_investment ==
            calculate_investment_capacity(prof).recommended_monthly_investment
        top_sips == Take(SortDesc(SipScores(prof, sdata)), TopSips)
        total_allocation == TotalAllocation(top_sips)
    IN  IF \E i \in 1..Len(sdata) : SipRaises(sdata[i].rec)
        THEN [raised |-> TRUE, recs |-> <<>>]
        ELSE [raised |-> FALSE,
              recs |-> [i \in 1..Len(top_sips) |->
                  FormatSip(top_sips[i], total_allocation,
                            recommended_monthly_investment)]]

-----------------------------------------------------------------------------
(* get_risk_management_tips (lines 1064-1137): the tips that depend on the   *)
(* profile, by the branch that adds them; the fixed tips are left out.       *)

get_risk_management_tips(prof) ==
    (IF prof.monthly_income <= 0 \/ 2 * prof.current_debt > prof.monthly_income * 12
     THEN <<"debt level is high">> ELSE <<>>)
    \o (IF /\ prof.monthly_income > 0
           /\ 5 * (prof.monthly_income - prof.monthly_expense) < prof.monthly_income
        THEN <<"savings rate is low">>
        ELSE IF prof.monthly_income <= 0 THEN <<"savings rate is low">> ELSE <<>>)
    \o (IF prof.investment_horizon < 3 THEN <<"short-term goals">>
        ELSE IF prof.investment_horizon < 7 THEN <<"medium-term goals">>
        ELSE <<"long-term goals">>)
    \o (IF prof.risk_tolerance <= 3 THEN <<"conservative risk profile">>
        ELSE IF prof.risk_tolerance <= 7 THEN <<"moderate risk profile">>
        ELSE <<"aggressive risk profile">>)

-----------------------------------------------------------------------------
(* Profile normalisation of the API entry points                             *)
(* (recommendation_system.py, lines 266-516).                                *)
(* A raw value is [k, v, s]: k = "absent" (key missing), "none" (None),      *)
(* "num" (int or float, v = value x100) or "str" (s = its characters).       *)

RawAbsent == [k |-> "absent", v |-> 0, s |-> <<>>]
RawNone == [k |-> "none", v |-> 0, s |-> <<>>]
RawNum(x) == [k |-> "num", v |-> x, s |-> <<>>]
RawStr(chars) == [k |-> "str", v |-> 0, s |-> chars]

UpperCase == <<"A", "B", "C", "D", "E", "F", "G", "H", "I", "J", "K", "L", "M",
               "N", "O", "P", "Q", "R", "S", "T", "U", "V", "W", "X", "Y", "Z">>
LowerCase == <<"a", "b", "c", "d", "e", "f", "g", "h", "i", "j", "k", "l", "m",
               "n", "o", "p", "q", "r", "s", "t", "u", "v", "w", "x", "y", "z">>
Digits == <<"0", "1", "2", "3", "4", "5", "6", "7", "8", "9">>

LowerChar(c) ==
    IF \E i \in 1..Len(UpperCase) : UpperCase[i] = c
    THEN LowerCase[CHOOSE i \in 1..Len(UpperCase) : UpperCase[i] = c]
    ELSE c

\* str.lower()
Lower(chars) == [i \in 1..Len(chars) |-> LowerChar(chars[i])]

IsDigit(c) == \E i \in 1..Len(Digits) : Digits[i] = c
DigitValue(c) == (CHOOSE i \in 1..Len(Digits) : Digits[i] = c) - 1

\* int() of a run of digits
RECURSIVE DigitsValue(_)
DigitsValue(chars) ==
    IF chars = <<>> THEN 0
    ELSE 10 * DigitsValue(SubSeq(chars, 1, Len(chars) - 1))
         + DigitValue(chars[Len(chars)])

\* re.search(r'(\d+)', s): the first maximal run of digits, <<>> when none
FirstDigitRun(chars) ==
    IF ~\E i \in 1..Len(chars) : IsDigit(chars[i]) THEN <<>>
    ELSE LET first == CHOOSE i \in 1..Len(chars) :
                          IsDigit(chars[i]) /\ \A j \in 1..(i - 1) : ~IsDigit(chars[j])
             last == CHOOSE j \in first..Len(chars) :
                         /\ \A m \in first..j : IsDigit(chars[m])
                         /\ (j = Len(chars) \/ ~IsDigit(chars[j + 1]))
         IN  SubSeq(chars, first, last)

\* int(x) of a number: truncation towards zero
IntOf(v) == IF v >= 0 THEN v \div 100 ELSE -((-v) \div 100)

ShortWord == <<"s", "h", "o", "r", "t">>
MediumWord == <<"m", "e", "d", "i", "u", "m">>
LongWord == <<"l", "o", "n", "g">>

\* profile_dict.get('investment_time_horizon', '5')
HorizonOrDefault(raw) == IF raw.k = "absent" THEN RawStr(<<"5">>) ELSE raw

\* horizon_value of lines 279-299; defined when HorizonRaises is false
HorizonValue(raw) ==
    LET investment_horizon == HorizonOrDefault(raw)
    IN  IF investment_horizon.k = "str"
        THEN IF Contains(Lower(investment_horizon.s), ShortWord) THEN 2
             ELSE IF Contains(Lower(investment_horizon.s), MediumWord) THEN 5
             ELSE IF Contains(Lower(investment_horizon.s), LongWord) THEN 10
             ELSE IF FirstDigitRun(investment_horizon.s) # <<>>
                  THEN DigitsValue(FirstDigitRun(investment_horizon.s))
             ELSE 5
        ELSE IntOf(investment_horizon.v)

\* int(None) raises TypeError
HorizonRaises(raw) == raw.k = "none"

\* profile_dict.get('risk_tolerance', 'moderate')
RiskOrDefault(raw) ==
    IF raw.k = "absent"
    THEN RawStr(<<"m", "o", "d", "e", "r", "a", "t", "e">>) ELSE raw

\* the dict of lines 304-306, .get(key, 5)
RiskLabelValue(chars) ==
    CASE chars = <<"l", "o", "w">> -> 3
      [] chars = <<"c", "o", "n", "s", "e", "r", "v", "a", "t", "i", "v", "e">> -> 3
      [] chars = <<"m", "e", "d", "i", "u", "m">> -> 5
      [] chars = <<"m", "o", "d", "e", "r", "a", "t", "e">> -> 5
      [] chars = <<"h", "i", "g", "h">> -> 8
      [] chars = <<"a", "g", "g", "r", "e", "s", "s", "i", "v", "e">> -> 8
      [] OTHER -> 5

\* risk_value of lines 301-308; defined when RiskRaises is false
RiskValue(raw) ==
    LET risk_tolerance == RiskOrDefault(raw)
    IN  IF risk_tolerance.k = "str"
        THEN RiskLabelValue(Lower(risk_tolerance.s))
        ELSE IntOf(risk_tolerance.v)

RiskRaises(raw) == raw.k = "none"

\* float(profile_dict.get(key, 0)), in whole rupees
AmountValue(f) == IF f.k = "absent" THEN 0 ELSE f.v
AmountRaises(f) == f.k \in {"none", "empty", "text"}

AmountKeys == {"monthly_income", "monthly_expenses", "current_savings",
               "existing_investments", "current_debt"}

NormaliseRaises(pd) ==
    \/ HorizonRaises(pd.investment_time_horizon)
    \/ RiskRaises(pd.risk_tolerance)
    \/ \E key \in AmountKeys : AmountRaises(pd[key])

\* the exception the normalisation raises first: the horizon and the risk
\* tolerance are converted before the amounts, the amounts in the order of
\* lines 311-317; int(None) and float(None) raise TypeError, float of a
\* string that is not a number raises ValueError
NormaliseError(pd) ==
    IF HorizonRaises(pd.investment_time_horizon) \/ RiskRaises(pd.risk_tolerance)
    THEN "TypeError"
    ELSE LET order == <<"monthly_income", "monthly_expenses", "current_savings",
                        "existing_investments", "current_debt">>
             first == CHOOSE i \in 1..Len(order) :
                          /\ AmountRaises(pd[order[i]])
                          /\ \A j \in 1..(i - 1) : ~AmountRaises(pd[order[j]])
         IN  IF pd[order[first]].k = "none" THEN "TypeError" ELSE "ValueError"

\* the profile dict of lines 311-319
NormaliseProfile(pd) ==
    [monthly_income |-> AmountValue(pd.monthly_income),
     monthly_expense |-> AmountValue(pd.monthly_expenses),
     current_savings |-> AmountValue(pd.current_savings),
     existing_investments |-> AmountValue(pd.existing_investments),
     current_debt |-> AmountValue(pd.current_debt),
     investment_horizon |-> HorizonValue(pd.investment_time_horizon),
     risk_tolerance |-> RiskValue(pd.risk_tolerance)]

-----------------------------------------------------------------------------
(* make_request_with_retry (data_collection.py, lines 108-197).  What         *)
(* session.get does is the network's choice: a response with status 200, 429  *)
(* or another status, a Timeout, or another RequestException.  A call is a     *)
(* record: its arguments (whether the url contains "screener.in",             *)
(* max_retries), the loop variable retry, the outcomes of the session.get      *)
(* calls made so far, and the pair it returned.                                *)

NoneValue == "None"

GetOutcomes == {"200", "429", "other status", "Timeout", "RequestException"}

NoRequest ==
    [pc |-> "idle", screener |-> FALSE, max_retries |-> 0, retry |-> 0,
     gets |-> <<>>, response |-> NoneValue, error |-> NoneValue]

\* lines 108-145: the call with its arguments, before the loop
StartRequest(screener, max_retries) ==
    [NoRequest EXCEPT !.pc = "loop", !.screener = screener,
                      !.max_retries = max_retries]

\* return response, error
Return(req, resp, error_msg) ==
    [req EXCEPT !.pc = "done", !.response = resp, !.error = error_msg]

\* the end of an iteration that returns nothing: on to the next retry
Retry(req) == [req EXCEPT !.retry = @ + 1]

\* an iteration that retries after every status but 200
AfterGetRetryingEveryStatus(req, outcome) ==
    LET got == [req EXCEPT !.gets = Append(@, outcome)]
    IN  IF outcome = "200" THEN Return(got, "response", NoneValue)
        ELSE IF outcome = "RequestException" /\ req.retry = req.max_retries - 1
        THEN Return(got, NoneValue, "str(e)")
        ELSE Retry(got)

\* lines 149-195: one iteration of the loop, session.get having ended in
\* outcome
AfterGet(req, outcome) ==
    LET got == [req EXCEPT !.gets = Append(@, outcome)]
    IN  IF outcome = "200" THEN Return(got, "response", NoneValue)
        ELSE IF outcome = "429" THEN Retry(got)
        ELSE IF outcome = "other status"
        THEN IF req.screener THEN Retry(got)
             ELSE Return(got, NoneValue, "HTTP error")
        ELSE IF outcome = "Timeout" THEN Retry(got)
        ELSE IF req.retry = req.max_retries - 1
        THEN Return(got, NoneValue, "str(e)")
        ELSE Retry(got)

-----------------------------------------------------------------------------
(* State machine: the engine's functions as operations on the caller's       *)
(* objects.  A call reads the inputs, leaves them as they are, and records   *)
(* what it returned.                                                         *)

Scorers == {"recommend_stocks", "recommend_mutual_funds",
            "recommend_commodities", "recommend_sip"}

MaxCalls == 2
MaxHorizon == 12
MaxAmountSteps == 5
MaxSavingsSteps == 3
MaxItems == 10
RiskMin == 1
RiskMax == 10

EmptyStockData == [technical |-> <<>>, fundamental |-> <<>>]
EmptySentiment == [sector_sentiment |-> <<>>]

\* the profile of the specification's capacity example
ExampleProfile ==
    [monthly_income |-> 50000, monthly_expense |-> 30000,
     current_savings |-> 100000, existing_investments |-> 200000,
     current_debt |-> 50000, investment_horizon |-> 5, risk_tolerance |-> 5]

EmptyProfileDict ==
    [investment_time_horizon |-> RawAbsent, risk_tolerance |-> RawAbsent,
     monthly_income |-> Absent, monthly_expenses |-> Absent,
     current_savings |-> Absent, existing_investments |-> Absent,
     current_debt |-> Absent]

NoResults ==
    /\ capacity = Nothing /\ allocation = Nothing
    /\ stock_recs = Nothing /\ fund_recs = Nothing
    /\ commodity_recs = Nothing /\ sip_recs = Nothing
    /\ response = Nothing /\ guidance = Nothing
    /\ fundamental_scores = <<>> /\ stock_scores = <<>> /\ fund_scores = <<>>
    /\ commodity_scores = <<>> /\ sip_scores = <<>>
    /\ ncalls = [fn \in Scorers |-> 0]
    /\ returned = [fn \in Scorers |-> {}]
    /\ pc = [fn \in Scorers |-> "idle"]
    /\ request = NoRequest

NoMarketData ==
    /\ stock_data = EmptyStockData /\ sentiment_data = EmptySentiment
    /\ mutual_fund_data = <<>> /\ commodity_data = <<>> /\ sip_data = <<>>

\* the call history of one scorer after one more call made in one piece
Called(fn, value) ==
    /\ ncalls[fn] < MaxCalls
    /\ ncalls' = [ncalls EXCEPT ![fn] = @ + 1]
    /\ returned' = [returned EXCEPT ![fn] = @ \cup {value}]
    /\ pc' = pc

CalculateInvestmentCapacity ==
    /\ capacity' = Some(calculate_investment_capacity(profile))
    /\ UNCHANGED <<request, inputs, guidance, allocation, stock_recs, fund_recs, commodity_recs,
                   sip_recs, response, locals, history>>

DetermineAssetAllocation ==
    /\ allocation' = Some(determine_asset_allocation(profile))
    /\ UNCHANGED <<request, inputs, guidance, capacity, stock_recs, fund_recs, commodity_recs,
                   sip_recs, response, locals, history>>

RecommendStocks ==
    LET top == TopFundamentalStocks(stock_data, profile, sentiment_data)
    IN  /\ Called("recommend_stocks",
                  recommend_stocks(profile, stock_data, sentiment_data))
        /\ stock_recs' = Some(recommend_stocks(profile, stock_data, sentiment_data))
        /\ fundamental_scores' =
               FundamentalScores(ValidStocks(stock_data.technical,
                                             stock_data.fundamental),
                                 stock_data.fundamental, profile,
                                 sentiment_data.sector_sentiment)
        /\ stock_scores' = StockScores(top, stock_data, profile)
        /\ UNCHANGED <<request, inputs, guidance, capacity, allocation, fund_recs, commodity_recs,
                       sip_recs, response, fund_scores, commodity_scores,
                       sip_scores>>

RecommendMutualFunds ==
    /\ Called("recommend_mutual_funds",
              recommend_mutual_funds(profile, mutual_fund_data))
    /\ fund_recs' = Some(recommend_mutual_funds(profile, mutual_fund_data))
    /\ fund_scores' = FundScores(profile, mutual_fund_data)
    /\ UNCHANGED <<request, inputs, guidance, capacity, allocation, stock_recs, commodity_recs,
                   sip_recs, response, fundamental_scores, stock_scores,
                   commodity_scores, sip_scores>>

\* a scorer that consumes the entry it scored first (commodity_data.pop)
RecommendCommoditiesConsumingInput ==
    /\ Called("recommend_commodities",
              recommend_commodities(profile, commodity_data))
    /\ commodity_recs' = Some(recommend_commodities(profile, commodity_data))
    /\ commodity_scores' = CommodityScores(profile, commodity_data)
    /\ commodity_data' = IF commodity_data = <<>> THEN <<>> ELSE Tail(commodity_data)
    /\ UNCHANGED <<request, profile_dict, profile, stock_data, sentiment_data,
                   mutual_fund_data, sip_data, guidance, capacity, allocation, stock_recs,
                   fund_recs, sip_recs, response, fundamental_scores,
                   stock_scores, fund_scores, sip_scores>>

RecommendCommodities ==
    /\ Called("recommend_commodities",
              recommend_commodities(profile, commodity_data))
    /\ commodity_recs' = Some(recommend_commodities(profile, commodity_data))
    /\ commodity_scores' = CommodityScores(profile, commodity_data)
    /\ UNCHANGED <<request, inputs, guidance, capacity, allocation, stock_recs, fund_recs,
                   sip_recs, response, fundamental_scores, stock_scores,
                   fund_scores, sip_scores>>

\* a scorer that writes into the plans it was given (sip["min_investment"] = None)
RecommendSipWritingPlans ==
    /\ Called("recommend_sip", recommend_sip(profile, sip_data))
    /\ sip_recs' = Some(recommend_sip(profile, sip_data))
    /\ sip_scores' = IF recommend_sip(profile, sip_data).raised
                     THEN <<>> ELSE SipScores(profile, sip_data)
    /\ sip_data' = [i \in DOMAIN sip_data |->
                       [sip_data[i] EXCEPT !.rec.min_investment = None]]
    /\ UNCHANGED <<request, profile_dict, profile, stock_data, sentiment_data,
                   mutual_fund_data, commodity_data, guidance, capacity, allocation,
                   stock_recs, fund_recs, commodity_recs, response,
                   fundamental_scores, stock_scores, fund_scores,
                   commodity_scores>>

RecommendSip ==
    /\ Called("recommend_sip", recommend_sip(profile, sip_data))
    /\ sip_recs' = Some(recommend_sip(profile, sip_data))
    /\ sip_scores' = IF recommend_sip(profile, sip_data).raised
                     THEN <<>> ELSE SipScores(profile, sip_data)
    /\ UNCHANGED <<request, inputs, guidance, capacity, allocation, stock_recs, fund_recs,
                   commodity_recs, response, fundamental_scores, stock_scores,
                   fund_scores, commodity_scores>>

-----------------------------------------------------------------------------
(* The scorers run in steps: each call as the phases of its code, a scoring   *)
(* loop that fills the call's local table and the ranking that formats the    *)
(* return value from it, so that the calls of one request can interleave.     *)
(* The tables are local variables of the calls, one set per scorer.           *)

\* the call of fn moves from one phase to the next
Step(fn, from, to) ==
    /\ pc[fn] = from
    /\ pc' = [pc EXCEPT ![fn] = to]

\* the call of fn returns value
Returns(fn, from, value) ==
    /\ Step(fn, from, "returned")
    /\ ncalls' = [ncalls EXCEPT ![fn] = @ + 1]
    /\ returned' = [returned EXCEPT ![fn] = @ \cup {value}]

\* lines 172-364: the loop over valid_stocks
ScoreFundamentals ==
    /\ Step("recommend_stocks", "idle", "fundamentals")
    /\ fundamental_scores' =
           FundamentalScores(ValidStocks(stock_data.technical,
                                         stock_data.fundamental),
                             stock_data.fundamental, profile,
                             sentiment_data.sector_sentiment)
    /\ UNCHANGED <<request, inputs, outputs, stock_scores, fund_scores, commodity_scores,
                   sip_scores, ncalls, returned>>

\* lines 366-513: the top 25 of fundamental_scores and the loop over them
ScoreTechnicals ==
    /\ Step("recommend_stocks", "fundamentals", "technicals")
    /\ stock_scores' =
           StockScores(Take(SortDesc(fundamental_scores), TopFundamental),
                       stock_data, profile)
    /\ UNCHANGED <<request, inputs, outputs, fundamental_scores, fund_scores,
                   commodity_scores, sip_scores, ncalls, returned>>

\* lines 515-565: the top 8 of stock_scores, formatted
ReturnStocks ==
    LET top_stocks == Take(SortDesc(stock_scores), TopStocks)
        recommendations == [i \in 1..Len(top_stocks) |-> FormatStock(top_stocks[i])]
    IN  /\ Returns("recommend_stocks", "technicals", recommendations)
        /\ stock_recs' = Some(recommendations)
        /\ UNCHANGED <<request, inputs, guidance, capacity, allocation, fund_recs, commodity_recs,
                       sip_recs, response, locals>>

\* a fund loop that keeps its scores in a table shared with the SIP call and
\* clears that table first
ScoreMutualFundsInSharedTable ==
    /\ Step("recommend_mutual_funds", "idle", "scored")
    /\ fund_scores' = FundScores(profile, mutual_fund_data)
    /\ sip_scores' = <<>>
    /\ UNCHANGED <<request, inputs, outputs, fundamental_scores, stock_scores,
                   commodity_scores, ncalls, returned>>

\* lines 595-733: the loop over mf_data
ScoreMutualFunds ==
    /\ Step("recommend_mutual_funds", "idle", "scored")
    /\ fund_scores' = FundScores(profile, mutual_fund_data)
    /\ UNCHANGED <<request, inputs, outputs, fundamental_scores, stock_scores,
                   commodity_scores, sip_scores, ncalls, returned>>

\* lines 735-763: the top 7 of fund_scores, formatted
ReturnMutualFunds ==
    LET top_funds == Take(SortDesc(fund_scores), TopFunds)
        recommendations == [i \in 1..Len(top_funds) |-> FormatFund(top_funds[i])]
    IN  /\ Returns("recommend_mutual_funds", "scored", recommendations)
        /\ fund_recs' = Some(recommendations)
        /\ UNCHANGED <<request, inputs, guidance, capacity, allocation, stock_recs, commodity_recs,
                       sip_recs, response, locals>>

\* lines 786-877: the loop over commodity_data
ScoreCommodities ==
    /\ Step("recommend_commodities", "idle", "scored")
    /\ commodity_scores' = CommodityScores(profile, commodity_data)
    /\ UNCHANGED <<request, inputs, outputs, fundamental_scores, stock_scores,
                   fund_scores, sip_scores, ncalls, returned>>

\* lines 879-904: the top 3 of commodity_scores, formatted
ReturnCommodities ==
    LET top_commodities == Take(SortDesc(commodity_scores), TopCommodities)
        recommendations ==
            [i \in 1..Len(top_commodities) |-> FormatCommodity(top_commodities[i])]
    IN  /\ Returns("recommend_commodities", "scored", recommendations)
        /\ commodity_recs' = Some(recommendations)
        /\ UNCHANGED <<request, inputs, guidance, capacity, allocation, stock_recs, fund_recs,
                       sip_recs, response, locals>>

\* lines 932-1025: the loop over sip_data; a plan whose arithmetic raises ends
\* the call
ScoreSips ==
    IF \E i \in 1..Len(sip_data) : SipRaises(sip_data[i].rec)
    THEN /\ Returns("recommend_sip", "idle", [raised |-> TRUE, recs |-> <<>>])
         /\ sip_recs' = Some([raised |-> TRUE, recs |-> <<>>])
         /\ UNCHANGED <<request, inputs, guidance, capacity, allocation, stock_recs, fund_recs,
                        commodity_recs, response, locals>>
    ELSE /\ Step("recommend_sip", "idle", "scored")
         /\ sip_scores' = SipScores(profile, sip_data)
         /\ UNCHANGED <<request, inputs, outputs, fundamental_scores, stock_scores,
                        fund_scores, commodity_scores, ncalls, returned>>

\* lines 1027-1062: the top 5 of sip_scores with their monthly amounts
ReturnSips ==
    LET top_sips == Take(SortDesc(sip_scores), TopSips)
        value ==
            [raised |-> FALSE,
             recs |-> [i \in 1..Len(top_sips) |->
                 FormatSip(top_sips[i], TotalAllocation(top_sips),
                           calculate_investment_capacity(profile)
                               .recommended_monthly_investment)]]
    IN  /\ Returns("recommend_sip", "scored", value)
        /\ sip_recs' = Some(value)
        /\ UNCHANGED <<request, inputs, guidance, capacity, allocation, stock_recs, fund_recs,
                       commodity_recs, response, locals>>

-----------------------------------------------------------------------------
(* The API entry points (recommendation_system.py, lines 266-516).  Each      *)
(* builds a fresh canonical profile from profile_dict, reads the providers'   *)
(* data and calls the scorers; any exception becomes an error response.       *)

Success(recommendations) ==
    [status |-> "success", keys |-> {"status", "recommendations"},
     recommendations |-> recommendations]

Failure ==
    [status |-> "error", keys |-> {"status", "message"},
     recommendations |-> <<>>]

\* an exception that leaves the entry point: the caller gets no dict
Escaped ==
    [status |-> "raised", keys |-> {}, recommendations |-> <<>>]

\* a handler for ValueError alone
ExceptValueError(exc) == IF exc = "ValueError" THEN Failure ELSE Escaped

\* except Exception as e (lines 340-347, 415-422, 509-516): every exception
\* raised in the try block, whatever its class, becomes the error dict
ExceptException(exc) == Failure

\* the exceptions a data provider can raise when the network or the cache
\* file fails
ProviderErrors == {"RequestException", "OSError", "KeyError"}

\* an entry point whose profile is usable and one of whose data providers
\* raises: the scorers are not reached
ProviderRaises ==
    /\ ~NormaliseRaises(profile_dict)
    /\ \E exc \in ProviderErrors : response' = Some(ExceptException(exc))
    /\ UNCHANGED <<request, inputs, guidance, capacity, allocation, stock_recs,
                   fund_recs, commodity_recs, sip_recs, locals, history>>

\* the call history of the fresh profile: one call of each scorer of called
FreshHistory(called, value) ==
    /\ ncalls' = [fn \in Scorers |-> IF fn \in called THEN 1 ELSE 0]
    /\ returned' = [fn \in Scorers |-> IF fn \in called THEN {value[fn]} ELSE {}]
    /\ pc' = pc

GenerateStockRecommendations ==
    IF NormaliseRaises(profile_dict)
    THEN /\ response' = Some(ExceptException(NormaliseError(profile_dict)))
         /\ UNCHANGED <<request, inputs, guidance, capacity, allocation, stock_recs, fund_recs,
                        commodity_recs, sip_recs, locals, history>>
    ELSE LET prof == NormaliseProfile(profile_dict)
             stock_recommendations ==
                 recommend_stocks(prof, stock_data, sentiment_data)
         IN  /\ profile' = prof
             /\ stock_recs' = Some(stock_recommendations)
             /\ fundamental_scores' =
                    FundamentalScores(ValidStocks(stock_data.technical,
                                                  stock_data.fundamental),
                                      stock_data.fundamental, prof,
                                      sentiment_data.sector_sentiment)
             /\ stock_scores' =
                    StockScores(TopFundamentalStocks(stock_data, prof, sentiment_data),
                                stock_data, prof)
             /\ FreshHistory({"recommend_stocks"},
                             [fn \in Scorers |-> stock_recommendations])
             /\ response' = Some(Success(stock_recommendations))
             /\ UNCHANGED <<request, profile_dict, stock_data, sentiment_data,
                            mutual_fund_data, commodity_data, sip_data, guidance, capacity,
                            allocation, fund_recs, commodity_recs, sip_recs,
                            fund_scores, commodity_scores, sip_scores>>

GenerateMutualFundRecommendations ==
    IF NormaliseRaises(profile_dict)
    THEN /\ response' = Some(ExceptException(NormaliseError(profile_dict)))
         /\ UNCHANGED <<request, inputs, guidance, capacity, allocation, stock_recs, fund_recs,
                        commodity_recs, sip_recs, locals, history>>
    ELSE LET prof == NormaliseProfile(profile_dict)
             mf_recommendations == recommend_mutual_funds(prof, mutual_fund_data)
         IN  /\ profile' = prof
             /\ fund_recs' = Some(mf_recommendations)
             /\ fund_scores' = FundScores(prof, mutual_fund_data)
             /\ FreshHistory({"recommend_mutual_funds"},
                             [fn \in Scorers |-> mf_recommendations])
             /\ response' = Some(Success(mf_recommendations))
             /\ UNCHANGED <<request, profile_dict, stock_data, sentiment_data,
                            mutual_fund_data, commodity_data, sip_data, guidance, capacity,
                            allocation, stock_recs, commodity_recs, sip_recs,
                            fundamental_scores, stock_scores, commodity_scores,
                            sip_scores>>

\* generate_recommendations (lines 74-99) for a canonical profile
generate_recommendations(prof, sdata, mfdata, cdata, sipdata, sentiment) ==
    [stocks |-> recommend_stocks(prof, sdata, sentiment),
     mutual_funds |-> recommend_mutual_funds(prof, mfdata),
     commodities |-> recommend_commodities(prof, cdata),
     sip |-> recommend_sip(prof, sipdata).recs,
     risk_management |-> get_risk_management_tips(prof)]

\* the return of generate_all_recommendations once the profile is built:
\* sip is what recommend_sip did, recommendations the dict of lines 93-97
AllRecommended(prof, recommendations, sip) ==
    /\ profile' = prof
    /\ stock_recs' = Some(recommendations.stocks)
    /\ fund_recs' = Some(recommendations.mutual_funds)
    /\ commodity_recs' = Some(recommendations.commodities)
    /\ sip_recs' = Some(sip)
    /\ fundamental_scores' =
           FundamentalScores(ValidStocks(stock_data.technical,
                                         stock_data.fundamental),
                             stock_data.fundamental, prof,
                             sentiment_data.sector_sentiment)
    /\ stock_scores' =
           StockScores(TopFundamentalStocks(stock_data, prof, sentiment_data),
                       stock_data, prof)
    /\ fund_scores' = FundScores(prof, mutual_fund_data)
    /\ commodity_scores' = CommodityScores(prof, commodity_data)
    /\ sip_scores' = IF sip.raised THEN <<>> ELSE SipScores(prof, sip_data)
    /\ FreshHistory(Scorers,
           [fn \in Scorers |->
               CASE fn = "recommend_stocks" -> recommendations.stocks
                 [] fn = "recommend_mutual_funds" -> recommendations.mutual_funds
                 [] fn = "recommend_commodities" -> recommendations.commodities
                 [] fn = "recommend_sip" -> sip])
    /\ response' = IF sip.raised THEN Some(ExceptException("TypeError"))
                   ELSE Some(Success(recommendations))
    /\ UNCHANGED <<request, profile_dict, stock_data, sentiment_data, mutual_fund_data,
                   commodity_data, sip_data, guidance, capacity, allocation>>

GenerateAllRecommendations ==
    IF NormaliseRaises(profile_dict)
    THEN /\ response' = Some(ExceptException(NormaliseError(profile_dict)))
         /\ UNCHANGED <<request, inputs, guidance, capacity, allocation, stock_recs, fund_recs,
                        commodity_recs, sip_recs, locals, history>>
    ELSE AllRecommended(
             NormaliseProfile(profile_dict),
             generate_recommendations(NormaliseProfile(profile_dict), stock_data,
                                      mutual_fund_data, commodity_data, sip_data,
                                      sentiment_data),
             recommend_sip(NormaliseProfile(profile_dict), sip_data))

-----------------------------------------------------------------------------
(* generate_portfolio_guidance (recommendation_system.py, lines 101-185).     *)
(* It normalises the risk tolerance and the horizon of the profile it is      *)
(* given by itself; horizon_years and risk_score are its locals, kept in      *)
(* the modelled return value beside the equity and debt percentages.          *)

\* risk_score of lines 112-123; int(None) raises TypeError
GuidanceRiskScore(raw) ==
    IF raw.k = "str"
    THEN CASE Lower(raw.s) \in {<<"l", "o", "w">>,
                               <<"c", "o", "n", "s", "e", "r", "v", "a", "t", "i", "v", "e">>} -> 3
           [] Lower(raw.s) = <<"m", "o", "d", "e", "r", "a", "t", "e">> -> 5
           [] Lower(raw.s) \in {<<"h", "i", "g", "h">>,
                               <<"a", "g", "g", "r", "e", "s", "s", "i", "v", "e">>} -> 8
           [] OTHER -> 5
    ELSE IF raw.k = "absent" THEN 5
    ELSE IntOf(raw.v)

\* horizon_years of lines 126-136: the first integer of a string, else 5
GuidanceHorizonYears(raw) ==
    IF raw.k = "str"
    THEN IF FirstDigitRun(Lower(raw.s)) # <<>>
         THEN DigitsValue(FirstDigitRun(Lower(raw.s)))
         ELSE 5
    ELSE IF raw.k = "absent" THEN 5
    ELSE IntOf(raw.v)

generate_portfolio_guidance(prof) ==
    LET risk_score == GuidanceRiskScore(prof.risk_tolerance)
        horizon_years == GuidanceHorizonYears(prof.investment_horizon)
        equity_percent == Min(90, Max(30, (risk_score * 7) + (horizon_years * 2)))
    IN  IF prof.risk_tolerance.k = "none" \/ prof.investment_horizon.k = "none"
        THEN [raised |-> TRUE, risk_score |-> 0, horizon_years |-> 0,
              equity_percent |-> 0, debt_percent |-> 0]
        ELSE [raised |-> FALSE, risk_score |-> risk_score,
              horizon_years |-> horizon_years,
              equity_percent |-> equity_percent,
              debt_percent |-> 100 - equity_percent]

\* a call with a profile that carries the raw horizon under the key
\* 'investment_horizon', the one the function reads
GeneratePortfolioGuidance ==
    /\ guidance' = Some(generate_portfolio_guidance(
           [risk_tolerance |-> profile_dict.risk_tolerance,
            investment_horizon |-> profile_dict.investment_time_horizon]))
    /\ UNCHANGED <<request, inputs, capacity, allocation, stock_recs, fund_recs,
                   commodity_recs, sip_recs, response, locals, history>>

-----------------------------------------------------------------------------
(* Capacity: every profile of a grid of non-negative rupee amounts *)

InitCapacity ==
    /\ \E income \in 0..MaxAmountSteps, expense \in 0..MaxAmountSteps,
          debt \in 0..MaxAmountSteps, savings \in 0..MaxSavingsSteps,
          invested \in {0, 200000} :
          profile = [monthly_income |-> income * 10000,
                     monthly_expense |-> expense * 10000,
                     current_savings |-> savings * 100000,
                     existing_investments |-> invested,
                     current_debt |-> debt * 10000,
                     investment_horizon |-> 5, risk_tolerance |-> 5]
    /\ profile_dict = EmptyProfileDict
    /\ NoMarketData /\ NoResults

NextCapacity == CalculateInvestmentCapacity

SpecCapacity == InitCapacity /\ [][NextCapacity]_vars

(* Allocation: every canonical risk tolerance and horizon *)

InitAllocation ==
    /\ \E risk \in RiskMin..RiskMax, horizon \in 0..MaxHorizon :
          profile = [ExampleProfile EXCEPT !.risk_tolerance = risk,
                                           !.investment_horizon = horizon]
    /\ profile_dict = EmptyProfileDict
    /\ NoMarketData /\ NoResults

NextAllocation == DetermineAssetAllocation

SpecAllocation == InitAllocation /\ [][NextAllocation]_vars

-----------------------------------------------------------------------------
(* Stocks: one- and two-symbol market data whose records range over every     *)
(* tier of every signal and over every kind of unusable value.                *)

BlankFund ==
    [pe_ratio |-> Absent, industry_pe |-> Absent, roe |-> Absent,
     debt_to_equity |-> Absent, eps |-> Absent, dividend_yield |-> Absent,
     profit_growth |-> Absent, market_cap |-> Absent, sector |-> "", name |-> ""]

\* the candidate of the specification's fundamental example
ExampleFund ==
    [BlankFund EXCEPT !.pe_ratio = Num(1200), !.roe = Num(2200),
                      !.debt_to_equity = Num(25), !.eps = Num(6000),
                      !.dividend_yield = Num(500), !.profit_growth = Num(3500)]

NameOnlyFund == [BlankFund EXCEPT !.name = "Plain Ltd"]

SectorFund ==
    [ExampleFund EXCEPT !.sector = "IT", !.industry_pe = Num(2000),
                        !.market_cap = Num(600000)]

BlankTech ==
    [price_to_ma50 |-> Absent, price_to_ma200 |-> Absent, rsi |-> Absent,
     macd |-> Absent, macd_signal |-> Absent, macd_histogram |-> Absent,
     macd_histogram_prev |-> Absent, volume_change |-> Absent,
     day_change |-> Absent, volatility |-> Absent, current_price |-> Absent]

BullTech ==
    [price_to_ma50 |-> Num(112), price_to_ma200 |-> Num(125), rsi |-> Num(6000),
     macd |-> Num(150), macd_signal |-> Num(100), macd_histogram |-> Num(50),
     macd_histogram_prev |-> Num(-20), volume_change |-> Num(250),
     day_change |-> Num(350), volatility |-> Num(2000),
     current_price |-> Num(1500)]

BearTech ==
    [BlankTech EXCEPT !.rsi = Num(7500), !.macd = Num(-100),
                      !.macd_signal = Num(0)]

\* a value on each side of every threshold the signals compare with
FieldProbes == {-200, -50, 0, 25, 50, 90, 102, 108, 120, 180, 250, 300, 450,
                500, 800, 1200, 1800, 2000, 2500, 3000, 3500, 4000, 4500,
                6000, 7200}

NonNumbers == {Absent, None, EmptyStr, Text}

FieldValues(f) ==
    NonNumbers \cup {NumStr(1200)} \cup
    (IF f = "market_cap" THEN {Num(100000), Num(600000), Num(6000000)}
     ELSE {Num(x) : x \in FieldProbes})

\* the records that differ from base in one field
Variants(base, fields) ==
    UNION {{[base EXCEPT ![f] = x] : x \in FieldValues(f)} : f \in fields}

OneStock(symbol, tech, fund) ==
    [technical |-> <<[key |-> symbol, rec |-> tech]>>,
     fundamental |-> <<[key |-> symbol, rec |-> fund]>>]

SectorSentiments ==
    {<<>>} \cup
    {<<[key |-> "IT", rec |-> [isdict |-> d, sentiment |-> sent]]>> :
        d \in BOOLEAN, sent \in {"positive", "neutral", "negative"}}

StockProfiles == {[ExampleProfile EXCEPT !.risk_tolerance = r] : r \in {2, 5, 8}}

InitStocks ==
    /\ profile \in StockProfiles
    /\ \/ /\ \E fund \in Variants(BlankFund, FundFields)
                         \cup Variants(ExampleFund, FundFields),
                tech \in {BullTech, BearTech} :
                stock_data = OneStock("AAA", tech, fund)
          /\ sentiment_data = EmptySentiment
       \/ /\ \E fund \in {ExampleFund, NameOnlyFund},
                tech \in Variants(BlankTech, TechFields)
                         \cup Variants(BullTech, TechFields)
                         \cup Variants(BearTech, TechFields) :
                stock_data = OneStock("AAA", tech, fund)
          /\ sentiment_data = EmptySentiment
       \/ /\ stock_data = OneStock("AAA", BullTech, SectorFund)
          /\ \E ss \in SectorSentiments :
                sentiment_data = [sector_sentiment |-> ss]
       \/ /\ \E tech \in {<<>>, <<[key |-> "AAA", rec |-> BullTech]>>},
                fund \in {<<>>, <<[key |-> "BBB", rec |-> ExampleFund]>>} :
                stock_data = [technical |-> tech, fundamental |-> fund]
          /\ sentiment_data = EmptySentiment
       \/ /\ \E t1 \in {BullTech, BearTech, BlankTech},
                t2 \in {BullTech, BearTech, [BullTech EXCEPT !.rsi = Text]},
                f1 \in {ExampleFund, NameOnlyFund, BlankFund},
                f2 \in {ExampleFund, NameOnlyFund} :
                stock_data =
                    [technical |-> <<[key |-> "AAA", rec |-> t1],
                                     [key |-> "BBB", rec |-> t2]>>,
                     fundamental |-> <<[key |-> "BBB", rec |-> f2],
                                       [key |-> "AAA", rec |-> f1]>>]
          /\ sentiment_data = EmptySentiment
    /\ profile_dict = EmptyProfileDict
    /\ mutual_fund_data = <<>> /\ commodity_data = <<>> /\ sip_data = <<>>
    /\ NoResults

NextStocks == RecommendStocks

SpecStocks == InitStocks /\ [][NextStocks]_vars

-----------------------------------------------------------------------------
(* Commodities: every named kind of commodity, every tier of day_change,      *)
(* every canonical risk tolerance and a range of horizons.                    *)

PlatinumName == <<"P", "l", "a", "t", "i", "n", "u", "m">>
BrentOilName == <<"B", "r", "e", "n", "t", " ", "O", "i", "l">>

CommodityNames == {GoldName, SilverName, CrudeOilName, BrentOilName, CopperName,
                   AluminiumName, PlatinumName}

DayChanges == {Absent, None, EmptyStr, Text, NumStr(150), Num(-150), Num(-100),
               Num(-50), Num(0), Num(50), Num(100), Num(150)}

Commodity(day_change) ==
    [day_change |-> day_change, current_price |-> Num(6000), unit |-> "10g"]

\* a market of five commodities, Gold last
FiveCommodities(day_change) ==
    <<[key |-> CopperName, rec |-> Commodity(Num(50))],
      [key |-> SilverName, rec |-> Commodity(day_change)],
      [key |-> CrudeOilName, rec |-> Commodity(Num(-150))],
      [key |-> AluminiumName, rec |-> Commodity(day_change)],
      [key |-> GoldName, rec |-> Commodity(Num(150))]>>

InitCommodities ==
    /\ \E risk \in RiskMin..RiskMax, horizon \in 0..MaxHorizon :
          profile = [ExampleProfile EXCEPT !.risk_tolerance = risk,
                                           !.investment_horizon = horizon]
    /\ \/ \E name \in CommodityNames, day_change \in DayChanges :
             commodity_data = <<[key |-> name, rec |-> Commodity(day_change)]>>
       \/ \E day_change \in DayChanges :
             commodity_data = FiveCommodities(day_change)
       \/ commodity_data = <<>>
    /\ profile_dict = EmptyProfileDict
    /\ stock_data = EmptyStockData /\ sentiment_data = EmptySentiment
    /\ mutual_fund_data = <<>> /\ sip_data = <<>>
    /\ NoResults

NextCommodities == RecommendCommodities

SpecCommodities == InitCommodities /\ [][NextCommodities]_vars

-----------------------------------------------------------------------------
(* Markets of up to MaxItems entries: more stocks, funds, commodities and     *)
(* plans than any of the scorers returns.                                     *)

Symbols == <<"S01", "S02", "S03", "S04", "S05", "S06", "S07", "S08", "S09",
             "S10", "S11", "S12", "S13", "S14", "S15", "S16", "S17", "S18",
             "S19", "S20", "S21", "S22", "S23", "S24", "S25", "S26", "S27",
             "S28", "S29", "S30", "S31", "S32">>

\* str(i) for 0 <= i < 100
NumberChars(i) ==
    IF i < 10 THEN <<Digits[i + 1]>>
    ELSE <<Digits[(i \div 10) + 1], Digits[(i % 10) + 1]>>

FundCycle == <<ExampleFund, NameOnlyFund, SectorFund,
               [ExampleFund EXCEPT !.roe = Text]>>
TechCycle == <<BearTech, BullTech, [BullTech EXCEPT !.rsi = Num(5000)]>>

ManyStocks(n, p) ==
    [technical |->
        [i \in 1..n |-> [key |-> Symbols[i],
                         rec |-> TechCycle[((i + p) % Len(TechCycle)) + 1]]],
     fundamental |->
        [i \in 1..n |-> [key |-> Symbols[i],
                         rec |-> FundCycle[((i + p) % Len(FundCycle)) + 1]]]]

MutualFund(risk_level, category, three_year_return) ==
    [risk_rating |-> Absent, one_year_return |-> Num(900),
     three_year_return |-> three_year_return, five_year_return |-> Num(1100),
     expense_ratio |-> Num(80), aum_crores |-> Num(600000), nav |-> Num(4500),
     risk_level |-> risk_level, category |-> category, name |-> "Fund"]

MutualFundCycle ==
    <<MutualFund("Low", "Debt", Num(700)),
      MutualFund("High", "Equity", Num(1500)),
      MutualFund("Medium", "Hybrid", Num(1000)),
      [MutualFund("", "Equity", Text) EXCEPT !.risk_rating = Num(650)]>>

ManyFunds(n, p) ==
    [i \in 1..n |-> [key |-> Symbols[i],
                     rec |-> MutualFundCycle[((i + p) % Len(MutualFundCycle)) + 1]]]

CommodityCycle == <<GoldName, SilverName, CrudeOilName, CopperName,
                    AluminiumName, PlatinumName, BrentOilName>>

CommodityName(i) ==
    IF i <= Len(CommodityCycle) THEN CommodityCycle[i]
    ELSE <<"M", "e", "t", "a", "l", " ">> \o NumberChars(i)

DayChangeCycle == <<Num(150), Num(-150), Num(50)>>

ManyCommodities(n, p) ==
    [i \in 1..n |->
        [key |-> CommodityName(i),
         rec |-> Commodity(DayChangeCycle[((i + p) % Len(DayChangeCycle)) + 1])]]

SipPlan(risk_level, recommended_duration, min_investment) ==
    [risk_rating |-> Absent, recommended_duration |-> recommended_duration,
     min_investment |-> min_investment, expected_returns |-> Text,
     risk_level |-> risk_level, tax_benefits |-> ""]

SipCycle ==
    <<SipPlan("High", [k |-> "range", v |-> 500], Num(1000)),
      SipPlan("Medium", Num(300), Num(500)),
      SipPlan("Low", [k |-> "range", v |-> 100], Num(5000)),
      [SipPlan("", None, Absent) EXCEPT !.risk_rating = Num(700)]>>

SipWords == <<EquityWord, BalancedWord, DebtWord, ElssWord>>

SipName(i) == SipWords[(i % Len(SipWords)) + 1] \o <<" ">> \o NumberChars(i)

ManySips(n, p) ==
    [i \in 1..n |-> [key |-> SipName(i),
                     rec |-> SipCycle[((i + p) % Len(SipCycle)) + 1]]]

InitCaps ==
    /\ profile \in StockProfiles
    /\ \E n \in 0..MaxItems, p \in 0..2 :
          /\ stock_data = ManyStocks(n, p)
          /\ mutual_fund_data = ManyFunds(n, p)
          /\ commodity_data = ManyCommodities(n, p)
          /\ sip_data = ManySips(n, p)
    /\ sentiment_data = EmptySentiment
    /\ profile_dict = EmptyProfileDict
    /\ NoResults

NextCaps ==
    \/ RecommendStocks
    \/ RecommendMutualFunds
    \/ RecommendCommodities
    \/ RecommendSip

SpecCaps == InitCaps /\ [][NextCaps]_vars

-----------------------------------------------------------------------------
(* Plans and funds: a market of two SIP plans, the second with every kind of  *)
(* value in each of its fields, and one fund that carries the same risk       *)
(* fields as that plan and nothing else.                                      *)

PlanName == <<"P", "l", "a", "n", " ", "2">>

SipRiskLevels == {"", "Low", "Unrated"}
SipRiskRatings == {Absent, Num(700), NumStr(700), Text}
SipDurations == {Absent, Num(300), Num(2000), [k |-> "range", v |-> 500],
                 [k |-> "badrange", v |-> 0]}
SipMinInvestments == {Absent, Num(500), Num(5000), NumStr(500), Text}

\* a plan that suits every profile, and one that suits none
GoodPlan == SipPlan("High", [k |-> "range", v |-> 500], Num(1000))
PoorPlan == SipPlan("", Num(2000), Num(900000))

\* a fund with no field but its risk fields
BareFund(risk_level, risk_rating) ==
    [risk_rating |-> risk_rating, one_year_return |-> Absent,
     three_year_return |-> Absent, five_year_return |-> Absent,
     expense_ratio |-> Absent, aum_crores |-> Absent, nav |-> Absent,
     risk_level |-> risk_level, category |-> "", name |-> "Fund"]

SipProfiles ==
    {[ExampleProfile EXCEPT !.risk_tolerance = r, !.monthly_income = income] :
        r \in {2, 8}, income \in {30000, 50000}}

InitSips ==
    /\ profile \in SipProfiles
    /\ \E first \in {GoodPlan, PoorPlan}, risk_level \in SipRiskLevels,
          risk_rating \in SipRiskRatings, duration \in SipDurations,
          min_investment \in SipMinInvestments :
          /\ sip_data =
                 <<[key |-> SipName(1), rec |-> first],
                   [key |-> PlanName,
                    rec |-> [SipPlan(risk_level, duration, min_investment)
                                EXCEPT !.risk_rating = risk_rating]]>>
          /\ mutual_fund_data =
                 <<[key |-> "F1", rec |-> BareFund(risk_level, risk_rating)]>>
    /\ stock_data = EmptyStockData /\ sentiment_data = EmptySentiment
    /\ commodity_data = <<>>
    /\ profile_dict = EmptyProfileDict
    /\ NoResults

NextSips ==
    \/ RecommendSip
    \/ RecommendMutualFunds

SpecSips == InitSips /\ [][NextSips]_vars

-----------------------------------------------------------------------------
(* Fund pairs: two funds, the second differing from the first in at most one  *)
(* field, scored for a horizon of each band.                                  *)

FundReturns1 == {Absent, Num(600), Num(1500), Text}
FundReturns3 == {Absent, Num(1100), Num(1600)}
FundReturns5 == {Absent, Num(800), Num(1400), NumStr(1400)}

FundRecord(risk_level, one_year_return, three_year_return, five_year_return) ==
    [BareFund(risk_level, Absent) EXCEPT
        !.one_year_return = one_year_return,
        !.three_year_return = three_year_return,
        !.five_year_return = five_year_return]

\* the records that differ from fund in one field
FundVariants(fund) ==
    {[fund EXCEPT !.risk_level = l] : l \in {"Low", "High"}}
    \cup {[fund EXCEPT !.risk_rating = r] : r \in {Num(200), Num(900)}}
    \cup {[fund EXCEPT !.one_year_return = r] : r \in FundReturns1}
    \cup {[fund EXCEPT !.three_year_return = r] : r \in FundReturns3}
    \cup {[fund EXCEPT !.five_year_return = r] : r \in FundReturns5}
    \cup {[fund EXCEPT !.expense_ratio = Num(30)],
          [fund EXCEPT !.aum_crores = Num(600000)],
          [fund EXCEPT !.category = "Equity"],
          [fund EXCEPT !.nav = Num(1000)]}

FundProfiles ==
    {[ExampleProfile EXCEPT !.risk_tolerance = r, !.investment_horizon = h] :
        r \in {3, 8}, h \in {1, 2, 3, 5}}

InitFunds ==
    /\ profile \in FundProfiles
    /\ \E risk_level \in {"Low", "High"}, r1 \in FundReturns1,
          r3 \in FundReturns3, r5 \in FundReturns5 :
          \E other \in FundVariants(FundRecord(risk_level, r1, r3, r5)) :
              mutual_fund_data =
                  <<[key |-> "F1", rec |-> FundRecord(risk_level, r1, r3, r5)],
                    [key |-> "F2", rec |-> other]>>
    /\ stock_data = EmptyStockData /\ sentiment_data = EmptySentiment
    /\ commodity_data = <<>> /\ sip_data = <<>>
    /\ profile_dict = EmptyProfileDict
    /\ NoResults

NextFunds ==
    \/ RecommendMutualFunds

SpecFunds == InitFunds /\ [][NextFunds]_vars

-----------------------------------------------------------------------------
(* Selection: markets of more than 25 symbols.  The last strong symbols of    *)
(* the technical map have the fundamentals of the example and a bearish       *)
(* chart; all the others tie on a record with nothing but a name, and those   *)
(* of them that the cut at 25 leaves out have the most bullish chart.  The    *)
(* fundamental map lists the symbols in the opposite order.                   *)

MaxExtraSymbols == 3

Reversed(s) == [i \in 1..Len(s) |-> s[Len(s) + 1 - i]]

\* charts that score less than BullTech
ModestTechCycle == <<BearTech, [BullTech EXCEPT !.rsi = Num(5000)],
                     [BearTech EXCEPT !.rsi = Num(5000)]>>

SelectionStocks(n, strong, p) ==
    LET technical ==
            [i \in 1..n |->
                [key |-> Symbols[i],
                 rec |-> IF i > n - strong THEN BearTech
                         ELSE IF i > TopFundamental - strong THEN BullTech
                         ELSE ModestTechCycle[((i + p) % Len(ModestTechCycle)) + 1]]]
        fundamental ==
            [i \in 1..n |->
                [key |-> Symbols[i],
                 rec |-> IF i > n - strong THEN ExampleFund ELSE NameOnlyFund]]
    IN  [technical |-> technical, fundamental |-> Reversed(fundamental)]

InitSelection ==
    /\ profile \in StockProfiles
    /\ \E n \in (TopFundamental + 1)..(TopFundamental + MaxExtraSymbols),
          strong \in 0..3, p \in 0..2 :
          stock_data = SelectionStocks(n, strong, p)
    /\ sentiment_data = EmptySentiment
    /\ mutual_fund_data = <<>> /\ commodity_data = <<>> /\ sip_data = <<>>
    /\ profile_dict = EmptyProfileDict
    /\ NoResults

NextSelection == RecommendStocks

SpecSelection == InitSelection /\ [][NextSelection]_vars

-----------------------------------------------------------------------------
(* API: raw profiles whose risk tolerance and horizon range over labels,      *)
(* unknown strings, numbers inside and outside 1..10, None and absence.       *)

RawRisks ==
    {RawAbsent, RawNone, RawStr(<<"l", "o", "w">>), RawStr(<<"C", "o", "n", "s", "e", "r", "v", "a", "t", "i", "v", "e">>), RawStr(<<"m", "o", "d", "e", "r", "a", "t", "e">>), RawStr(<<"H", "I", "G", "H">>), RawStr(<<"a", "g", "g", "r", "e", "s", "s", "i", "v", "e">>), RawStr(<<"r", "e", "c", "k", "l", "e", "s", "s">>), RawStr(<<"7">>)}
    \cup {RawNum(100 * x) : x \in {-3, 0, RiskMin, 5, RiskMax, RiskMax + 1, RiskMax + 5}}
    \cup {RawNum(790)}

RawHorizons ==
    {RawAbsent, RawNone, RawStr(<<"s", "h", "o", "r", "t">>), RawStr(<<"L", "o", "n", "g", " ", "t", "e", "r", "m">>), RawStr(<<"3", " ", "y", "e", "a", "r", "s">>), RawStr(<<"s", "o", "o", "n">>), RawNum(700), RawNum(-100)}

RawIncomes == {Num(50000), NumStr(50000), Absent, Text, Num(-5000)}

InitApi ==
    /\ \E risk \in RawRisks, horizon \in RawHorizons, income \in RawIncomes :
          profile_dict =
              [investment_time_horizon |-> horizon, risk_tolerance |-> risk,
               monthly_income |-> income, monthly_expenses |-> Num(30000),
               current_savings |-> NumStr(100000),
               existing_investments |-> Num(200000), current_debt |-> Num(50000)]
    /\ profile = ExampleProfile
    /\ stock_data = ManyStocks(3, 0)
    /\ sentiment_data = EmptySentiment
    /\ mutual_fund_data = ManyFunds(4, 0)
    /\ commodity_data = FiveCommodities(Num(50))
    /\ \E p \in 0..1 : sip_data = ManySips(3 + p, p)
    /\ NoResults

NextApi ==
    \/ GenerateStockRecommendations
    \/ GenerateMutualFundRecommendations
    \/ GenerateAllRecommendations

SpecApi == InitApi /\ [][NextApi]_vars

-----------------------------------------------------------------------------
(* Providers: the entry points called with usable and unusable raw profiles,  *)
(* with plans of which one makes recommend_sip raise, and with data           *)
(* providers that raise.                                                      *)

InitProviders ==
    /\ \E risk \in {RawAbsent, RawNone, RawStr(<<"l", "o", "w">>), RawNum(1500)},
          horizon \in {RawAbsent, RawNone, RawStr(<<"s", "h", "o", "r", "t">>)},
          income \in RawIncomes \cup {None}, savings \in {NumStr(100000), EmptyStr} :
          profile_dict =
              [investment_time_horizon |-> horizon, risk_tolerance |-> risk,
               monthly_income |-> income, monthly_expenses |-> Num(30000),
               current_savings |-> savings,
               existing_investments |-> Num(200000), current_debt |-> Num(50000)]
    /\ profile = ExampleProfile
    /\ stock_data = ManyStocks(2, 0)
    /\ sentiment_data = EmptySentiment
    /\ mutual_fund_data = ManyFunds(2, 0)
    /\ commodity_data = ManyCommodities(2, 0)
    /\ \E min_investment \in {Num(500), NumStr(500)} :
          sip_data = <<[key |-> SipName(1), rec |-> GoodPlan],
                       [key |-> PlanName,
                        rec |-> SipPlan("Low", Num(300), min_investment)]>>
    /\ NoResults

NextProviders ==
    \/ GenerateStockRecommendations
    \/ GenerateMutualFundRecommendations
    \/ GenerateAllRecommendations
    \/ ProviderRaises

SpecProviders == InitProviders /\ [][NextProviders]_vars

-----------------------------------------------------------------------------
(* Horizons: every entry point that normalises a horizon, on keywords in any  *)
(* case, keywords beside digits, strings with and without an integer,         *)
(* numbers, None and absence.                                                 *)

HorizonInputs ==
    RawHorizons \cup
    {RawStr(<<"M", "E", "D", "I", "U", "M">>),
     RawStr(<<"l", "o", "n", "g", " ", "3", "y">>),
     RawStr(<<"1", "2">>),
     RawStr(<<"a", "b", "o", "u", "t", " ", "1", "5", " ", "o", "r", " ", "2", "0">>),
     RawStr(<<>>)}

InitHorizon ==
    /\ \E risk \in {RawStr(<<"m", "o", "d", "e", "r", "a", "t", "e">>),
                    RawStr(<<"H", "I", "G", "H">>), RawNum(300), RawNone},
          horizon \in HorizonInputs :
          profile_dict =
              [investment_time_horizon |-> horizon, risk_tolerance |-> risk,
               monthly_income |-> Num(50000), monthly_expenses |-> Num(30000),
               current_savings |-> NumStr(100000),
               existing_investments |-> Num(200000), current_debt |-> Num(50000)]
    /\ profile = ExampleProfile
    /\ stock_data = ManyStocks(2, 0)
    /\ sentiment_data = EmptySentiment
    /\ mutual_fund_data = ManyFunds(2, 0)
    /\ commodity_data = ManyCommodities(2, 0)
    /\ sip_data = ManySips(2, 0)
    /\ NoResults

NextHorizon ==
    \/ GenerateStockRecommendations
    \/ GenerateMutualFundRecommendations
    \/ GenerateAllRecommendations
    \/ GeneratePortfolioGuidance

SpecHorizon == InitHorizon /\ [][NextHorizon]_vars

-----------------------------------------------------------------------------
(* The engine called by a client that keeps one profile and one snapshot of   *)
(* market data: every function, in any order, each scorer up to MaxCalls      *)
(* times.                                                                     *)

Init ==
    /\ \E risk \in {2, 5, 8}, horizon \in {1, 5} :
          profile = [ExampleProfile EXCEPT !.risk_tolerance = risk,
                                           !.investment_horizon = horizon]
    /\ \E n \in 1..3, p \in 0..1 :
          /\ stock_data = ManyStocks(n, p)
          /\ mutual_fund_data = ManyFunds(n, p)
          /\ commodity_data = ManyCommodities(n, p)
          /\ sip_data = ManySips(n, p)
    /\ sentiment_data = EmptySentiment
    /\ profile_dict = EmptyProfileDict
    /\ NoResults

Next ==
    \/ CalculateInvestmentCapacity
    \/ DetermineAssetAllocation
    \/ RecommendStocks
    \/ RecommendMutualFunds
    \/ RecommendCommodities
    \/ RecommendSip

Spec == Init /\ [][Next]_vars

-----------------------------------------------------------------------------
(* One request whose four scorer calls run in steps, in any order and         *)
(* interleaved in every way.                                                  *)

NextSteps ==
    \/ ScoreFundamentals
    \/ ScoreTechnicals
    \/ ReturnStocks
    \/ ScoreMutualFunds
    \/ ReturnMutualFunds
    \/ ScoreCommodities
    \/ ReturnCommodities
    \/ ScoreSips
    \/ ReturnSips

SpecSteps == Init /\ [][NextSteps]_vars

-----------------------------------------------------------------------------
(* Requests: make_request_with_retry called once, for a url of either kind    *)
(* and max_retries of 0..MaxRetries, with every course the network can take.  *)

MaxRetries == 3

\* the call is made
MakeRequestWithRetry ==
    /\ request.pc = "idle"
    /\ \E screener \in BOOLEAN, max_retries \in 0..MaxRetries :
          request' = StartRequest(screener, max_retries)
    /\ UNCHANGED <<inputs, outputs, locals, history>>

\* for retry in range(max_retries): one session.get and what follows it
Attempt ==
    /\ request.pc = "loop" /\ request.retry < request.max_retries
    /\ \E outcome \in GetOutcomes : request' = AfterGet(request, outcome)
    /\ UNCHANGED <<inputs, outputs, locals, history>>

\* line 197: the loop has run out
MaxRetriesExceeded ==
    /\ request.pc = "loop" /\ request.retry >= request.max_retries
    /\ request' = Return(request, NoneValue, "Max retries exceeded")
    /\ UNCHANGED <<inputs, outputs, locals, history>>

InitRequest ==
    /\ profile = ExampleProfile /\ profile_dict = EmptyProfileDict
    /\ NoMarketData /\ NoResults

NextRequest ==
    \/ MakeRequestWithRetry
    \/ Attempt
    \/ MaxRetriesExceeded

SpecRequest == InitRequest /\ [][NextRequest]_vars

-----------------------------------------------------------------------------
(* Properties of capacity and allocation *)

\* C1: the equity, debt and commodities percentages returned by
\* determine_asset_allocation add up to 100 within 0.01 (10000 hundredths
\* within 1), for every risk tolerance of 1..10 and every horizon >= 0.
C1_AllocationSumsTo100 ==
    IsSome(allocation) =>
        LET a == The(allocation)
        IN  Abs(a.equity + a.debt + a.commodities - 10000) <= 1

\* a short-horizon profile (the adjusted branch) has been allocated
C1_Witness ==
    /\ IsSome(allocation)
    /\ profile.investment_horizon < 3
    /\ profile.risk_tolerance = RiskMax
    /\ The(allocation).equity > 0 /\ The(allocation).debt > 0

C7_EveryResultFloored ==
    IsSome(capacity) =>
        LET c == The(capacity)
        IN  /\ c.monthly_surplus >= 0
            /\ c.net_worth >= 0
            /\ c.emergency_fund_requirement >= 0
            /\ c.current_savings_surplus >= 0
            /\ c.recommended_monthly_investment >= 0
            /\ c.lump_sum_investment_capacity >= 0
            /\ c.debt_payment_recommendation >= 0

\* C7 amended: recommended_monthly_investment, lump_sum_investment_capacity,
\* debt_payment_recommendation and current_savings_surplus are floored at 0;
\* monthly_surplus and net_worth are returned as computed and are negative
\* when expenses exceed income or debt exceeds savings plus investments.
C7_FlooredResults ==
    IsSome(capacity) =>
        LET c == The(capacity)
        IN  /\ c.current_savings_surplus >= 0
            /\ c.recommended_monthly_investment >= 0
            /\ c.lump_sum_investment_capacity >= 0
            /\ c.debt_payment_recommendation >= 0
            /\ c.monthly_surplus =
                  10 * (profile.monthly_income - profile.monthly_expense)
            /\ c.net_worth =
                  10 * (profile.current_savings + profile.existing_investments
                        - profile.current_debt)

\* expenses above income and debt above assets: the floors have acted
C7_Witness ==
    /\ IsSome(capacity)
    /\ profile.monthly_expense > profile.monthly_income
    /\ The(capacity).monthly_surplus < 0
    /\ The(capacity).net_worth < 0
    /\ The(capacity).recommended_monthly_investment = 0
    /\ The(capacity).debt_payment_recommendation = 0

\* C23: the equity percentage returned by determine_asset_allocation never
\* decreases when risk_tolerance increases with the horizon fixed, and never
\* decreases when investment_horizon increases with the risk fixed (across
\* the horizon < 3 cut-off too), for risk in 1..10 and integer horizon >= 0;
\* it always lies in [20, 90].  The allocation returned for the profile is
\* compared with those of the next risk tolerance and of the next horizon.
C23_EquityMonotone ==
    IsSome(allocation) =>
        LET equity == The(allocation).equity
            risk == profile.risk_tolerance
            horizon == profile.investment_horizon
        IN  /\ 2000 <= equity /\ equity <= 9000
            /\ risk < RiskMax =>
                   equity <= determine_asset_allocation(
                                 [profile EXCEPT !.risk_tolerance = risk + 1]).equity
            /\ equity <= determine_asset_allocation(
                             [profile EXCEPT !.investment_horizon = horizon + 1]).equity

\* the last horizon below the cut-off has been allocated, and its equity is
\* strictly below that of the first horizon at the cut-off
C23_Witness ==
    /\ IsSome(allocation)
    /\ profile.investment_horizon = 2 /\ profile.risk_tolerance = 5
    /\ The(allocation).equity = 3990
    /\ determine_asset_allocation(
           [profile EXCEPT !.investment_horizon = 3]).equity = 5800

\* C25: for every profile, recommended_monthly_investment +
\* debt_payment_recommendation returned by calculate_investment_capacity
\* equals max(0, monthly_income - monthly_expense): the whole non-negative
\* surplus is split between investing and debt payment, and nothing more
\* than the surplus is ever allocated.  Amounts in tenths.
C25_SurplusSplit ==
    IsSome(capacity) =>
        The(capacity).recommended_monthly_investment
            + The(capacity).debt_payment_recommendation
        = 10 * Max(0, profile.monthly_income - profile.monthly_expense)

\* a profile with little debt and a surplus (the 70/30 branch), and the
\* capacity calculated for it; profiles with expenses above income are
\* reached too
C25_Witness ==
    /\ IsSome(capacity)
    /\ profile.monthly_income = 20000 /\ profile.monthly_expense = 10000
    /\ profile.current_debt = 10000
    /\ The(capacity).recommended_monthly_investment = 70000
    /\ The(capacity).debt_payment_recommendation = 30000

\* C26: for every risk_tolerance in 1..10 and every horizon >= 0, the
\* sub-splits of determine_asset_allocation are all >= 0, large_cap + mid_cap
\* + small_cap equals the equity percentage and govt_bonds + corporate_bonds
\* equals the debt percentage (exactly before rounding: the factors add up
\* to one; within 0.02 after rounding), and the debt percentage is at least 5.
C26_SubSplits ==
    IsSome(allocation) =>
        LET a == The(allocation)
            shares == BreakdownShares(profile.risk_tolerance)
        IN  /\ a.equity_breakdown.large_cap >= 0
            /\ a.equity_breakdown.mid_cap >= 0
            /\ a.equity_breakdown.small_cap >= 0
            /\ a.debt_breakdown.govt_bonds >= 0
            /\ a.debt_breakdown.corporate_bonds >= 0
            /\ shares.large_cap + shares.mid_cap + shares.small_cap = 60
            /\ shares.govt_bonds + shares.corporate_bonds = 60
            /\ Abs(a.equity_breakdown.large_cap + a.equity_breakdown.mid_cap
                   + a.equity_breakdown.small_cap - a.equity) <= 2
            /\ Abs(a.debt_breakdown.govt_bonds + a.debt_breakdown.corporate_bonds
                   - a.debt) <= 2
            /\ a.debt >= 500

\* an allocation whose rounded equity sub-splits miss the equity percentage
\* by 0.01 (risk 1, horizon 5: 26.67 + 8.67 + 4.67 for 40), and whose debt
\* is split 22 / 33
C26_Witness ==
    /\ IsSome(allocation)
    /\ profile.risk_tolerance = 1 /\ profile.investment_horizon = 5
    /\ The(allocation).equity = 4000
    /\ The(allocation).equity_breakdown =
           [large_cap |-> 2667, mid_cap |-> 867, small_cap |-> 467]
    /\ The(allocation).debt_breakdown =
           [govt_bonds |-> 2200, corporate_bonds |-> 3300]

-----------------------------------------------------------------------------
(* Properties of recommend_stocks *)

\* C4: every item recommend_stocks returns has recommendation_strength in
\* [1.0, 10.0] (10..100 tenths), whatever its raw score, negative raw scores
\* and raw scores above 25 included.
C4_StrengthInRange ==
    IsSome(stock_recs) =>
        \A i \in 1..Len(The(stock_recs)) :
            /\ The(stock_recs)[i].recommendation_strength >= 10
            /\ The(stock_recs)[i].recommendation_strength <= 100

\* one returned list holds a negative raw score and a raw score above 25
C4_Witness ==
    /\ IsSome(stock_recs)
    /\ \E i, j \in 1..Len(The(stock_recs)) :
          /\ The(stock_recs)[i].raw_score > 100 * MaxPossibleScore
          /\ The(stock_recs)[i].recommendation_strength = 100
          /\ The(stock_recs)[j].raw_score < 0
          /\ The(stock_recs)[j].recommendation_strength = 10

\* C8: recommend_stocks returns the empty list (and returns: it does not
\* raise) when the technical map is empty, the fundamental map is empty, the
\* maps share no symbol, or every shared symbol is lost in the fundamental
\* phase (empty record, sector sentiment entry that is not a dict) or in the
\* technical phase (empty record, a non-numeric indicator).
C8_EmptyListWhenNothingSurvives ==
    LET technical == stock_data.technical
        fundamental == stock_data.fundamental
        sentiment == sentiment_data.sector_sentiment
        Shared == {i \in 1..Len(technical) :
                      \E j \in 1..Len(fundamental) :
                          fundamental[j].key = technical[i].key}
        FundOf(i) == fundamental[CHOOSE j \in 1..Len(fundamental) :
                                     fundamental[j].key = technical[i].key].rec
        LostInFundamental(i) ==
            \/ FundOf(i) = BlankFund
            \/ \E m \in 1..Len(sentiment) :
                  /\ sentiment[m].key = FundOf(i).sector
                  /\ ~sentiment[m].rec.isdict
        LostInTechnical(i) ==
            \/ technical[i].rec = BlankTech
            \/ \E f \in {"price_to_ma50", "price_to_ma200", "rsi",
                         "volume_change", "day_change", "volatility"} :
                  technical[i].rec[f].k \in {"empty", "text"}
    IN  (/\ IsSome(stock_recs)
         /\ \A i \in Shared : LostInFundamental(i) \/ LostInTechnical(i))
        => The(stock_recs) = <<>>

\* two shared symbols: one lost in the fundamental phase, one in the technical
C8_Witness ==
    /\ IsSome(stock_recs) /\ The(stock_recs) = <<>>
    /\ Len(stock_data.technical) = 2 /\ Len(stock_data.fundamental) = 2
    /\ Lookup(stock_data.fundamental, "AAA") = BlankFund
    /\ Lookup(stock_data.fundamental, "BBB") = ExampleFund
    /\ Lookup(stock_data.technical, "BBB").rsi = Text

\* the complete-data bonus as C9 states it: one point when pe_ratio, roe,
\* debt_to_equity and eps are all present and numeric
C9_NumericBonus(fund) ==
    IF \A f \in {"pe_ratio", "roe", "debt_to_equity", "eps"} :
           Given(fund[f]) /\ Parses(fund[f])
    THEN 100 ELSE 0

\* C9: the fundamental score of a stock is the sum of the points of the
\* signals whose field is present and numeric (PE, PE vs industry PE, ROE,
\* debt/equity, EPS, dividend yield, profit growth, market-cap alignment,
\* sector sentiment, complete-data bonus); an absent or non-numeric field
\* adds 0; the example candidate scores 26.
C9_ScoreCountsOnlyNumericFields ==
    \A i \in 1..Len(fundamental_scores) :
        LET entry == fundamental_scores[i]
            fund == Lookup(stock_data.fundamental, entry.symbol)
        IN  /\ entry.score =
                  PeSignal(fund).pts + IndustryPeSignal(fund).pts
                  + RoeSignal(fund).pts + DebtToEquitySignal(fund).pts
                  + EpsSignal(fund).pts + DividendYieldSignal(fund).pts
                  + ProfitGrowthSignal(fund).pts
                  + MarketCapSignal(fund, profile.risk_tolerance).pts
                  + SectorSentimentSignal(fund, sentiment_data.sector_sentiment).pts
                  + C9_NumericBonus(fund)
            /\ fund = ExampleFund => entry.score = 2600

\* the points entry i of fundamental_scores gained in the complete-data step:
\* its score less the points of the other signals
C22_BonusPoints(i) ==
    LET entry == fundamental_scores[i]
        fund == Lookup(stock_data.fundamental, entry.symbol)
    IN  entry.score
        - PeSignal(fund).pts - IndustryPeSignal(fund).pts
        - RoeSignal(fund).pts - DebtToEquitySignal(fund).pts
        - EpsSignal(fund).pts - DividendYieldSignal(fund).pts
        - ProfitGrowthSignal(fund).pts
        - MarketCapSignal(fund, profile.risk_tolerance).pts
        - SectorSentimentSignal(fund, sentiment_data.sector_sentiment).pts

\* C22: the +1 complete-data bonus is added to a stock's fundamental score if
\* and only if pe_ratio, roe, debt_to_equity and eps are all present with a
\* value that parses as numeric; a record in which one of the four is an
\* empty string or a non-numeric string does not receive the bonus.
C22_BonusIffAllFourNumeric ==
    \A i \in 1..Len(fundamental_scores) :
        LET fund == Lookup(stock_data.fundamental, fundamental_scores[i].symbol)
        IN  /\ C22_BonusPoints(i) \in {0, 100}
            /\ C22_BonusPoints(i) = 100 <=>
                   \A f \in {"pe_ratio", "roe", "debt_to_equity", "eps"} :
                       NotNone(fund[f]) /\ Parses(fund[f])

\* C28: recommend_stocks returns its items in non-increasing order of
\* raw_score, and recommendation_strength is a non-decreasing function of
\* raw_score, so recommendation_strength is also non-increasing down the
\* returned list; two stocks with equal raw_score always get equal
\* recommendation_strength.
C28_RankedByScoreAndStrength ==
    IsSome(stock_recs) =>
        \A i, j \in 1..Len(The(stock_recs)) :
            LET first == The(stock_recs)[i]
                second == The(stock_recs)[j]
            IN  /\ i < j => /\ first.raw_score >= second.raw_score
                            /\ first.recommendation_strength
                                   >= second.recommendation_strength
                /\ first.raw_score >= second.raw_score
                       => first.recommendation_strength
                              >= second.recommendation_strength
                /\ first.raw_score = second.raw_score
                       => first.recommendation_strength
                              = second.recommendation_strength

\* two stocks returned with different raw scores and with different
\* strengths, the second above the lower end of the scale
C28_Witness ==
    /\ IsSome(stock_recs) /\ Len(The(stock_recs)) = 2
    /\ The(stock_recs)[1].raw_score > The(stock_recs)[2].raw_score
    /\ The(stock_recs)[1].recommendation_strength
           > The(stock_recs)[2].recommendation_strength
    /\ The(stock_recs)[2].recommendation_strength > 10

-----------------------------------------------------------------------------
(* Properties of recommend_commodities *)

\* the point table of C10, for a commodity name, its day_change, and the
\* profile's risk tolerance, horizon and commodity allocation
C10_Base(name) ==
    IF name = GoldName THEN 5
    ELSE IF name = SilverName THEN 4
    ELSE IF Contains(name, OilWord) THEN 3
    ELSE 2

C10_Momentum(day_change) ==
    IF day_change.k \notin {"num", "numstr"} THEN 0
    ELSE IF day_change.v > 100 THEN 2
    ELSE IF day_change.v > 0 THEN 1
    ELSE IF day_change.v < -100 THEN -1
    ELSE 0

C10_RiskTier(name, risk) ==
    IF risk <= 3 THEN (IF name = GoldName THEN 3 ELSE 0)
    ELSE IF risk <= 7 THEN (IF name \in {GoldName, SilverName} THEN 2 ELSE 0)
    ELSE (IF name \notin {GoldName, SilverName} THEN 2 ELSE 0)

C10_Horizon(name, horizon) ==
    IF horizon <= 2 /\ name = GoldName THEN 2
    ELSE IF horizon >= 5 /\ name \in {CopperName, AluminiumName, CrudeOilName}
    THEN 2
    ELSE 0

C10_SmallAllocation(name, commodity_allocation) ==
    IF commodity_allocation <= 500 /\ name = GoldName THEN 1 ELSE 0

\* C10: the score recommend_commodities gives a commodity is base (Gold 5,
\* Silver 4, a name containing "Oil" 3, else 2) + day-change momentum +
\* risk-tier bonus + horizon bonus + small-allocation bonus; Gold with
\* day_change 1.5, risk tolerance 2 and horizon 1 scores 13.  Scores x100.
C10_CommodityScore ==
    \A i \in 1..Len(commodity_scores) :
        LET entry == commodity_scores[i]
            day_change == Lookup(commodity_data, entry.name).day_change
        IN  /\ entry.score =
                  100 * (C10_Base(entry.name) + C10_Momentum(day_change)
                         + C10_RiskTier(entry.name, profile.risk_tolerance)
                         + C10_Horizon(entry.name, profile.investment_horizon)
                         + C10_SmallAllocation(entry.name,
                               determine_asset_allocation(profile).commodities))
            /\ (/\ entry.name = GoldName /\ day_change = Num(150)
                /\ profile.risk_tolerance = 2
                /\ profile.investment_horizon = 1) => entry.score = 1300

\* the example of C10 has been scored
C10_Witness ==
    /\ IsSome(commodity_recs)
    /\ profile.risk_tolerance = 2 /\ profile.investment_horizon = 1
    /\ Len(commodity_scores) = 1
    /\ commodity_scores[1].name = GoldName
    /\ Lookup(commodity_data, GoldName).day_change = Num(150)
    /\ commodity_scores[1].score = 1300

\* the points entry i of commodity_scores gained in the risk-tier step: its
\* score less the points of the other steps
C21_TierPoints(i) ==
    LET name == commodity_scores[i].name
    IN  commodity_scores[i].score
        - CommodityBaseSignal(name).pts
        - CommodityDayChangeSignal(Lookup(commodity_data, name)).pts
        - CommodityHorizonSignal(name, profile.investment_horizon).pts
        - CommodityAllocationSignal(name,
              determine_asset_allocation(profile).commodities).pts

\* C21 as stated: the risk-tier bonus of recommend_commodities is +3 for Gold
\* when risk_tolerance <= 3, +2 for Gold or Silver when risk_tolerance <= 7,
\* and +2 for any other commodity when risk_tolerance > 7; in particular
\* Silver receives the +2 for every risk_tolerance <= 7, including
\* risk_tolerance <= 3.
C21_RiskTierBonus ==
    \A i \in 1..Len(commodity_scores) :
        LET name == commodity_scores[i].name
            risk == profile.risk_tolerance
        IN  /\ C21_TierPoints(i) =
                  (IF risk <= 3 /\ name = GoldName THEN 300 ELSE 0)
                  + (IF risk <= 7 /\ name \in {GoldName, SilverName}
                     THEN 200 ELSE 0)
                  + (IF risk > 7 /\ name \notin {GoldName, SilverName}
                     THEN 200 ELSE 0)
            /\ (name = SilverName /\ risk <= 7) => C21_TierPoints(i) = 200

\* C21 as amended: the tiers exclude one another.  The bonus is +3 for Gold
\* when risk_tolerance <= 3, +2 for Gold or Silver when 3 < risk_tolerance
\* <= 7, +2 for any commodity other than Gold and Silver when risk_tolerance
\* > 7, and 0 otherwise; Silver receives the +2 exactly when
\* 3 < risk_tolerance <= 7.
C21_ExclusiveRiskTiers ==
    \A i \in 1..Len(commodity_scores) :
        LET name == commodity_scores[i].name
            risk == profile.risk_tolerance
        IN  /\ C21_TierPoints(i) =
                  IF risk <= 3 THEN (IF name = GoldName THEN 300 ELSE 0)
                  ELSE IF risk <= 7
                  THEN (IF name \in {GoldName, SilverName} THEN 200 ELSE 0)
                  ELSE (IF name \notin {GoldName, SilverName} THEN 200 ELSE 0)
            /\ name = SilverName =>
                   (C21_TierPoints(i) = 200 <=> (3 < risk /\ risk <= 7))

\* Silver and Gold have been scored together for a risk tolerance of 7, the
\* last of the moderate tier, and both gained the +2
C21_Witness ==
    /\ IsSome(commodity_recs) /\ profile.risk_tolerance = 7
    /\ \E i, j \in 1..Len(commodity_scores) :
           /\ commodity_scores[i].name = SilverName /\ C21_TierPoints(i) = 200
           /\ commodity_scores[j].name = GoldName /\ C21_TierPoints(j) = 200

\* the points entry i of commodity_scores gained in the small-allocation
\* step: its score less the points of the other steps
C27_AllocationPoints(i) ==
    LET name == commodity_scores[i].name
    IN  commodity_scores[i].score
        - CommodityBaseSignal(name).pts
        - CommodityDayChangeSignal(Lookup(commodity_data, name)).pts
        - CommodityRiskSignal(name, profile.risk_tolerance).pts
        - CommodityHorizonSignal(name, profile.investment_horizon).pts

\* C27: determine_asset_allocation returns commodities = 5 for every profile
\* (equity, debt and commodities already add up to 100 before the
\* renormalisation, which therefore changes none of them), so in
\* recommend_commodities the condition commodity_allocation <= 5 always
\* holds and Gold receives the small-allocation +1 for every profile.
C27_GoldSmallAllocation ==
    LET a == determine_asset_allocation(profile)
    IN  /\ a.commodities = 500
        /\ a.equity + a.debt + a.commodities = 10000
        /\ \A i \in 1..Len(commodity_scores) :
               /\ commodity_scores[i].name = GoldName
                      => C27_AllocationPoints(i) = 100
               /\ commodity_scores[i].name # GoldName
                      => C27_AllocationPoints(i) = 0

\* Gold has been scored among other commodities for the profile with the
\* largest equity share (risk 10, horizon 10: equity 90, debt 5)
C27_Witness ==
    /\ IsSome(commodity_recs)
    /\ profile.risk_tolerance = RiskMax /\ profile.investment_horizon = 10
    /\ determine_asset_allocation(profile).debt = 500
    /\ Len(commodity_scores) > 1
    /\ \E i \in 1..Len(commodity_scores) :
           /\ commodity_scores[i].name = GoldName
           /\ C27_AllocationPoints(i) = 100

-----------------------------------------------------------------------------
(* Properties of the four scorers together *)

\* C3: whatever the size of its input, recommend_stocks returns at most 8
\* items, recommend_mutual_funds at most 7, recommend_commodities at most 3
\* and recommend_sip at most 5.
C3_ListCaps ==
    /\ IsSome(stock_recs) => Len(The(stock_recs)) <= 8
    /\ IsSome(fund_recs) => Len(The(fund_recs)) <= 7
    /\ IsSome(commodity_recs) => Len(The(commodity_recs)) <= 3
    /\ IsSome(sip_recs) => Len(The(sip_recs).recs) <= 5

\* every scorer has scored more candidates than its cap and returned as many
\* as its cap
C3_Witness ==
    /\ IsSome(stock_recs) /\ IsSome(fund_recs)
    /\ IsSome(commodity_recs) /\ IsSome(sip_recs)
    /\ Len(stock_scores) > 8 /\ Len(The(stock_recs)) = 8
    /\ Len(fund_scores) > 7 /\ Len(The(fund_recs)) = 7
    /\ Len(commodity_scores) > 3 /\ Len(The(commodity_recs)) = 3
    /\ Len(sip_scores) > 5 /\ Len(The(sip_recs).recs) = 5

-----------------------------------------------------------------------------
(* Properties of the API entry points *)

\* C2: for every raw profile handed to an API entry point, the risk_tolerance
\* of the canonical profile it passes to the scorers is in 1..10, whether the
\* raw value is a label, an unknown string or a number outside 1..10.
C2_CanonicalRiskInRange ==
    (IsSome(response) /\ ~NormaliseRaises(profile_dict))
        => profile.risk_tolerance \in 1..10

-----------------------------------------------------------------------------
(* Frame and error handling *)

\* C11: no scorer mutates its inputs: across every call of recommend_stocks,
\* recommend_mutual_funds, recommend_commodities or recommend_sip the profile,
\* the market-data maps with every record in them and the sentiment bundle
\* keep the values they had before the call.
C11_ScorersLeaveInputs ==
    [][(ncalls' # ncalls) =>
           /\ profile' = profile
           /\ stock_data' = stock_data
           /\ sentiment_data' = sentiment_data
           /\ mutual_fund_data' = mutual_fund_data
           /\ commodity_data' = commodity_data
           /\ sip_data' = sip_data]_vars

\* each scorer has been called on a non-empty market and has returned items
C11_Witness ==
    /\ \A fn \in Scorers : ncalls[fn] >= 1
    /\ The(stock_recs) # <<>> /\ The(fund_recs) # <<>>
    /\ The(commodity_recs) # <<>> /\ The(sip_recs).recs # <<>>
    /\ Len(sip_data) = 3 /\ Len(stock_data.technical) = 3

\* the fields of a record whose value is null or a non-numeric string
C12_UnusableFields(rec, fields) ==
    {f \in fields : rec[f].k \in {"none", "empty", "text"}}

\* every other field of the record is a number or is not there
C12_OthersNumeric(rec, fields) ==
    \A f \in fields : rec[f].k \in {"absent", "num", "none", "empty", "text"}

\* C12: in recommend_stocks a symbol with a non-empty technical and a
\* non-empty fundamental record, one of whose fields is null or not numeric
\* (rsi = 'N/A', or macd_histogram = null beside a numeric macd and
\* macd_signal), loses only that signal: it is still scored and is in the
\* output (here at most two symbols compete for the 8 places).
C12_BadFieldKeepsSymbol ==
    IsSome(stock_recs) =>
        \A i \in 1..Len(stock_data.technical) :
            LET symbol == stock_data.technical[i].key
                tech == stock_data.technical[i].rec
            IN  HasKey(stock_data.fundamental, symbol) =>
                    LET fund == Lookup(stock_data.fundamental, symbol)
                    IN  (/\ ~EmptyTech(tech) /\ ~EmptyFund(fund)
                         /\ C12_OthersNumeric(tech, TechFields)
                         /\ C12_OthersNumeric(fund, FundFields)
                         /\ Cardinality(C12_UnusableFields(tech, TechFields))
                            + Cardinality(C12_UnusableFields(fund, FundFields)) = 1
                         /\ sentiment_data.sector_sentiment = <<>>)
                        => \E j \in 1..Len(The(stock_recs)) :
                               The(stock_recs)[j].symbol = symbol

\* C13: a structurally invalid profile, one with a negative monthly_income,
\* is answered with an error by the normalisation and the core functions
\* behind an API entry point, never with a result.
C13_NegativeIncomeRejected ==
    (/\ IsSome(response)
     /\ Parses(profile_dict.monthly_income)
     /\ profile_dict.monthly_income.v < 0)
        => The(response).status = "error"

\* C30: generate_stock_recommendations, generate_mutual_fund_recommendations
\* and generate_all_recommendations never raise: whatever the profile dict
\* contains and whatever a data provider or scorer does (raising included),
\* each returns a dict whose status is 'success' together with a
\* 'recommendations' entry, or 'error' together with a 'message' entry, and
\* never both or neither.
C30_EntryPointsAlwaysAnswer ==
    IsSome(response) =>
        LET answer == The(response)
        IN  /\ answer.status \in {"success", "error"}
            /\ answer.status = "success"
                   => answer.keys = {"status", "recommendations"}
            /\ answer.status = "error" => answer.keys = {"status", "message"}
            /\ NormaliseRaises(profile_dict) => answer.status = "error"

\* generate_all_recommendations answered with an error because recommend_sip
\* raised on a plan, the profile being usable
C30_Witness ==
    /\ IsSome(response) /\ The(response).status = "error"
    /\ ~NormaliseRaises(profile_dict)
    /\ IsSome(sip_recs) /\ The(sip_recs).raised
    /\ IsSome(stock_recs) /\ ncalls["recommend_sip"] = 1

-----------------------------------------------------------------------------
(* Properties of recommend_sip and recommend_mutual_funds *)

\* C14: recommend_sip absorbs field-level errors: whatever non-numeric or
\* malformed risk_rating, min_investment or recommended_duration a plan
\* carries, the call raises nothing and still returns the plans (here two,
\* fewer than the cap of 5).
C14_SipAbsorbsFieldErrors ==
    IsSome(sip_recs) =>
        /\ ~The(sip_recs).raised
        /\ \A i \in 1..Len(sip_data) :
               \E j \in 1..Len(The(sip_recs).recs) :
                   The(sip_recs).recs[j].name = sip_data[i].key

\* a is num / den rupees rounded to a nearest multiple of 100
C18_Nearest100(a, num, den) ==
    a % 100 = 0 /\ 2 * Abs(a * den - num) <= 100 * den

C19_SameRiskMatch ==
    (/\ IsSome(sip_recs) /\ ~The(sip_recs).raised /\ IsSome(fund_recs)
     /\ sip_data[2].rec.recommended_duration = Absent
     /\ sip_data[2].rec.min_investment = Absent
     /\ sip_data[2].rec.risk_level = mutual_fund_data[1].rec.risk_level
     /\ sip_data[2].rec.risk_rating = mutual_fund_data[1].rec.risk_rating)
        => sip_scores[2].score = fund_scores[1].score

\* the points fund i of the last recommend_mutual_funds call gained in the
\* horizon-dependent step: its score less the points of the other steps
C20_StepPoints(i) ==
    LET fund == mutual_fund_data[i].rec
    IN  fund_scores[i].score
        - RiskMatchSignal(profile.risk_tolerance, FundRisk(fund)).pts
        - FundCategorySignal(fund, determine_asset_allocation(profile)).pts
        - FundExpenseSignal(fund).pts
        - FundAumSignal(fund).pts

\* the return figures named for the band of the user's horizon
C20_BandFigures(i) ==
    LET fund == mutual_fund_data[i].rec
    IN  IF profile.investment_horizon <= 1 THEN <<fund.one_year_return>>
        ELSE IF profile.investment_horizon <= 3
        THEN <<fund.one_year_return, fund.three_year_return>>
        ELSE <<fund.three_year_return, fund.five_year_return>>

C20_RiskFields(i) ==
    <<mutual_fund_data[i].rec.risk_rating, mutual_fund_data[i].rec.risk_level>>

\* C20 as stated: in recommend_mutual_funds the points a fund gains in the
\* horizon-dependent step depend only on the return figures named for the
\* band of the user's horizon: two funds with the same figures for the band
\* gain the same points in this step, whatever else differs.
C20_StepDependsOnReturnsOnly ==
    IsSome(fund_recs) =>
        \A i, j \in 1..Len(fund_scores) :
            C20_BandFigures(i) = C20_BandFigures(j)
                => C20_StepPoints(i) = C20_StepPoints(j)

\* C20 as amended: the points of the horizon-dependent step depend only on
\* the return figures named for the band and, for a horizon of at most one
\* year, on the fund's risk fields: two funds with the same figures for the
\* band (and, in the short band, the same risk_rating and risk_level) gain
\* the same points in this step.
C20_StepDependsOnReturnsAndShortTermRisk ==
    IsSome(fund_recs) =>
        \A i, j \in 1..Len(fund_scores) :
            (/\ C20_BandFigures(i) = C20_BandFigures(j)
             /\ (profile.investment_horizon <= 1
                    => C20_RiskFields(i) = C20_RiskFields(j)))
                => C20_StepPoints(i) = C20_StepPoints(j)

\* short band: two different low-risk funds with the same 1-year return of
\* more than 10 gain 3 + 3 points each; and likewise a pair of another band
C20_Witness ==
    /\ IsSome(fund_recs) /\ Len(fund_scores) = 2
    /\ mutual_fund_data[1].rec # mutual_fund_data[2].rec
    /\ profile.investment_horizon <= 1
    /\ C20_BandFigures(1) = C20_BandFigures(2)
    /\ C20_RiskFields(1) = C20_RiskFields(2)
    /\ C20_StepPoints(1) = 600 /\ C20_StepPoints(2) = 600

\* C29: every monthly_amount returned by recommend_sip is >= 0, and >= the
\* plan's min_investment when the plan has one, for every profile and every
\* set of plans, including sets in which some returned plan has a negative
\* score or no min_investment.
C29_AmountsNotNegative ==
    (IsSome(sip_recs) /\ ~The(sip_recs).raised) =>
        \A j \in 1..Len(The(sip_recs).recs) :
            LET rec == The(sip_recs).recs[j]
            IN  /\ rec.monthly_amount >= 0
                /\ rec.min_investment.k = "num"
                       => rec.monthly_amount >= rec.min_investment.v

-----------------------------------------------------------------------------
(* Properties of the calls of one request *)

\* C15: the four scorers called for one user on the same profile and data
\* snapshot return, in every order of invocation and under every
\* interleaving of their steps, the lists that the fixed order stocks,
\* mutual funds, commodities, SIP of generate_recommendations returns.
C15_OrderIndependent ==
    LET fixed == generate_recommendations(profile, stock_data, mutual_fund_data,
                                          commodity_data, sip_data, sentiment_data)
    IN  /\ pc["recommend_stocks"] = "returned" => The(stock_recs) = fixed.stocks
        /\ pc["recommend_mutual_funds"] = "returned"
               => The(fund_recs) = fixed.mutual_funds
        /\ pc["recommend_commodities"] = "returned"
               => The(commodity_recs) = fixed.commodities
        /\ pc["recommend_sip"] = "returned" => The(sip_recs).recs = fixed.sip

\* the SIP and commodity calls have returned while the stock call stands
\* between its two loops and the fund call before its ranking, and all four
\* tables hold entries
C15_Witness ==
    /\ pc["recommend_sip"] = "returned" /\ The(sip_recs).recs # <<>>
    /\ pc["recommend_commodities"] = "returned" /\ The(commodity_recs) # <<>>
    /\ pc["recommend_stocks"] = "fundamentals" /\ fundamental_scores # <<>>
    /\ pc["recommend_mutual_funds"] = "scored" /\ fund_scores # <<>>
    /\ stock_recs = Nothing /\ fund_recs = Nothing

-----------------------------------------------------------------------------
(* Properties of the selection of recommend_stocks *)

\* entry i of a table comes before entry j in the ranking by score: higher
\* score, or the same score and earlier in the table
C16_Before(table, i, j) ==
    \/ table[i].score > table[j].score
    \/ table[i].score = table[j].score /\ i < j

\* the symbols of the entries of table that fewer than n entries come before
C16_Top(table, n) ==
    {table[j].symbol : j \in {k \in 1..Len(table) :
        Cardinality({i \in 1..Len(table) : C16_Before(table, i, k)}) < n}}

\* C16: recommend_stocks selects in two phases.  The fundamental scores are
\* listed in the iteration order of the technical map; only the 25 symbols
\* with the highest fundamental score, ties kept in that order, receive
\* technical scoring; the output is the 8 highest total scores among them in
\* descending order; a symbol outside the fundamental top 25 is never in the
\* output.
C16_TwoPhaseSelection ==
    IsSome(stock_recs) =>
        LET recs == The(stock_recs)
            valid == ValidStocks(stock_data.technical, stock_data.fundamental)
        IN  /\ \A i \in 1..Len(fundamental_scores) :
                   fundamental_scores[i].symbol = valid[i]
            /\ {stock_scores[i].symbol : i \in 1..Len(stock_scores)}
                   = C16_Top(fundamental_scores, 25)
            /\ Len(recs) = Min(8, Len(stock_scores))
            /\ {recs[i].symbol : i \in 1..Len(recs)} = C16_Top(stock_scores, 8)
            /\ \A i \in 1..(Len(recs) - 1) : recs[i].raw_score >= recs[i + 1].raw_score
            /\ \A i \in 1..Len(recs) :
                   recs[i].symbol \in C16_Top(fundamental_scores, 25)

\* more than 25 symbols were scored on fundamentals, the cut fell inside a
\* tie, and a symbol it left out would have had a higher total than the last
\* of the 8 returned
C16_Witness ==
    /\ IsSome(stock_recs) /\ Len(The(stock_recs)) = 8
    /\ Len(fundamental_scores) > 25 /\ Len(stock_scores) = 25
    /\ \E j \in 1..Len(fundamental_scores) :
           /\ fundamental_scores[j].symbol \notin C16_Top(fundamental_scores, 25)
           /\ \E i \in 1..Len(fundamental_scores) :
                  /\ fundamental_scores[i].symbol \in C16_Top(fundamental_scores, 25)
                  /\ fundamental_scores[i].score = fundamental_scores[j].score
           /\ TechnicalScore(fundamental_scores[j],
                             Lookup(stock_data.technical, fundamental_scores[j].symbol),
                             Lookup(stock_data.fundamental, fundamental_scores[j].symbol),
                             profile).score > The(stock_recs)[8].raw_score

-----------------------------------------------------------------------------
(* Properties of the normalisation *)

\* the value the normaliser is to give a string or a whole number
C17_Horizon(raw) ==
    IF raw.k = "num" THEN raw.v \div 100
    ELSE IF Contains(Lower(raw.s), ShortWord) THEN 2
    ELSE IF Contains(Lower(raw.s), MediumWord) THEN 5
    ELSE IF Contains(Lower(raw.s), LongWord) THEN 10
    ELSE IF \E i \in 1..Len(raw.s) : IsDigit(raw.s[i])
         THEN DigitsValue(FirstDigitRun(raw.s))
    ELSE 5

\* C17: a horizon string containing 'short' is normalised to 2, 'medium' to
\* 5, 'long' to 10, in any case and before any digits; another string to
\* the first integer in it, or to 5 without one; a number to itself; no
\* string makes the normaliser raise; and generate_stock_recommendations,
\* generate_mutual_fund_recommendations, generate_all_recommendations and
\* generate_portfolio_guidance give the same value for the same input.
C17_HorizonNormalised ==
    LET raw == profile_dict.investment_time_horizon
    IN  (raw.k = "str" \/ (raw.k = "num" /\ raw.v % 100 = 0)) =>
            /\ (IsSome(response) /\ profile_dict.risk_tolerance.k # "none")
                   => /\ The(response).status = "success"
                      /\ profile.investment_horizon = C17_Horizon(raw)
            /\ (IsSome(guidance) /\ profile_dict.risk_tolerance.k # "none")
                   => /\ ~The(guidance).raised
                      /\ The(guidance).horizon_years = C17_Horizon(raw)

-----------------------------------------------------------------------------
(* Properties of make_request_with_retry *)

\* C24: make_request_with_retry terminates after at most max_retries calls
\* of session.get (every iteration of the loop makes one and moves on or
\* returns) and always returns a pair with exactly one non-None element:
\* (response, None) if and only if some attempt returned status 200,
\* otherwise (None, error message); for a url that does not contain
\* "screener.in", a response with a status other than 200 and 429 ends the
\* call at once without further attempts.
C24_BoundedRetries ==
    LET gets == request.gets
    IN  /\ Len(gets) <= request.max_retries
        /\ request.pc = "loop" => Len(gets) = request.retry
        /\ request.pc = "done" =>
               /\ (request.response = NoneValue) # (request.error = NoneValue)
               /\ request.response # NoneValue
                      <=> \E i \in 1..Len(gets) : gets[i] = "200"
        /\ request.pc # "done" => \A i \in 1..Len(gets) : gets[i] # "200"
        /\ \A i \in 1..Len(gets) :
               (gets[i] = "other status" /\ ~request.screener)
                   => (request.pc = "done" /\ i = Len(gets))

\* a call for a url outside screener.in that was rate limited, timed out and
\* then met another status; and such calls end in all three other ways
C24_Witness ==
    /\ request.pc = "done" /\ ~request.screener
    /\ request.gets = <<"429", "Timeout", "other status">>
    /\ request.response = NoneValue /\ request.error = "HTTP error"

====
